---- MODULE Spec2Model ----
(***************************************************************************)
(* Model of the canvas transform/interaction subsystem:                    *)
(*   CanvasTransformer (interaction mode machine, drag and transform       *)
(*   handlers), and the parts of CanvasStateApi the transformer uses.      *)
(*                                                                         *)
(* Real numbers are fixed-point integers in units of 1/Unit of a logical   *)
(* pixel; scale factors are exact rationals [num, den] in lowest terms.    *)
(***************************************************************************)
EXTENDS Integers, Sequences, FiniteSets, TLC

\* ------------------------------------------------------------------------
\* Bounds and input sets
\* ------------------------------------------------------------------------

\* Entities that own a transformer (the layers of the canvas state).
Entities == {"layer_1", "layer_2"}

\* An identifier that resolves to no entity of the layers collection.
GhostId == "layer_gone"

\* No selection / no transformer.
Null == "null"

\* Values of toolState.selected the transformer distinguishes.
Tools == {"brush", "move", "view"}

\* Cap on the rasterize() promises of one transformer pending at once.
MaxPending == 2

Modes == {"all", "drag", "off"}

\* ------------------------------------------------------------------------
\* State
\* ------------------------------------------------------------------------
VARIABLES
  selectedEntityIdentifier, \* canvasV2.selectedEntityIdentifier (id or Null)
  toolSelected,             \* canvasV2.tool.selected
  hasObjects,               \* [Entities -> BOOLEAN] parent.renderer.hasObjects()
  isTransforming,           \* [Entities -> BOOLEAN]
  interactionMode,          \* [Entities -> Modes]
  isDragEnabled,            \* [Entities -> BOOLEAN]
  isTransformEnabled,       \* [Entities -> BOOLEAN]
  widgets,                  \* [Entities -> konva visible/listening/nodes flags]
  layerListening,           \* [Entities -> BOOLEAN] parent.konva.layer.listening()
  rasterizing,              \* [Entities -> 0..MaxPending] applyTransform calls awaiting rasterize
  calls,                    \* calls made by the last operation, in order
  dispatched,               \* store actions dispatched by the last operation
  lastOp,                   \* [op, t]: the last operation and its transformer
  stageScale,               \* manager.getStageScale(), fixed point
  proxyRect,                \* konva.proxyRect of the held transformer
  bboxOutline,              \* konva.bboxOutline of the held transformer
  objectGroup,              \* parent.konva.objectGroup of the held transformer
  parentBbox,               \* parent.bbox of the held transformer
  dragging,                 \* a pointer drag of the proxy rectangle is in progress
  dragOrigin,               \* proxy position when the drag started
  pointerDelta,             \* pointer offset from the drag start, screen pixels
  container,                \* offsetWidth/offsetHeight of the stage's container, pixels
  stage,                    \* konva.stage: x, y, width, height, scaleX, scaleY
  stageAttrs,               \* stateApi.$stageAttrs: the published viewport
  adapters,                 \* [AdapterIds -> isEnabled, rect] the entity adapters
  genBbox,                  \* stateApi.getBbox().rect, the generation bounding box
  zooms,                    \* setScale calls since the last fit
  shiftKey,                 \* stateApi.$shiftKey
  rotationSnaps,            \* konva.transformer.rotationSnaps()
  activeAnchor,             \* konva.transformer.getActiveAnchor()
  boundBox,                 \* the bounding box the transform control last accepted
  subscriptions,            \* [Entities -> the atoms a transformer still listens to]
  cleanups,                 \* [Entities -> calls of each subscription's cleanup]
  destroyCalls,             \* [Entities -> calls of destroy()]
  lastArgs                  \* arguments (and results) of the last operation

modeVars == <<selectedEntityIdentifier, toolSelected, hasObjects, isTransforming,
              interactionMode, isDragEnabled, isTransformEnabled, widgets,
              layerListening, rasterizing>>

traceVars == <<calls, dispatched, lastOp>>

geomVars == <<stageScale, proxyRect, bboxOutline, objectGroup, parentBbox,
              dragging, dragOrigin, pointerDelta>>

stageVars == <<container, stage, stageAttrs, adapters, genBbox, zooms>>

anchorVars == <<shiftKey, rotationSnaps, activeAnchor, boundBox>>

lifeVars == <<subscriptions, cleanups, destroyCalls>>

envVars == <<stageVars, anchorVars, lifeVars, lastArgs>>

vars == <<modeVars, traceVars, geomVars, envVars>>

\* ------------------------------------------------------------------------
\* CanvasStateApi: selection
\* ------------------------------------------------------------------------

\* getSelectedEntity with the store holding identifier: the layer whose id
\* equals the identifier, or null.
getSelectedEntity(identifier) ==
  IF identifier = Null THEN Null
  ELSE IF identifier \in Entities THEN identifier
  ELSE Null

\* getIsSelected(id): this.getSelectedEntity()?.id === id
getIsSelected(identifier, id) ==
  getSelectedEntity(identifier) /= Null /\ getSelectedEntity(identifier) = id

\* ------------------------------------------------------------------------
\* CanvasTransformer: subscriptions
\* ------------------------------------------------------------------------

\* The four atoms the constructor listens to.
SubscriptionNames == {"stageAttrs", "shiftKey", "toolState", "selectedEntityIdentifier"}

\* The transformers whose listener on the atom is still registered.
Listening(atom) == {t \in Entities : atom \in subscriptions[t]}

\* ------------------------------------------------------------------------
\* CanvasTransformer: interaction mode
\* ------------------------------------------------------------------------

\* The konva flags set by _enableDrag/_disableDrag, _enableTransform/
\* _disableTransform and _showBboxOutline/_hideBboxOutline.
WidgetsOf(drag, transform, outline) ==
  [proxyVisible |-> drag, proxyListening |-> drag,
   transformerVisible |-> transform, transformerListening |-> transform,
   transformerNodes |-> IF transform THEN "proxyRect" ELSE Null,
   outlineVisible |-> outline]

\* setInteractionMode(m): the fields it leaves behind.
setInteractionMode(m) ==
  IF m = "drag" THEN
    [mode |-> m, isDragEnabled |-> TRUE, isTransformEnabled |-> FALSE,
     widgets |-> WidgetsOf(TRUE, FALSE, TRUE)]
  ELSE IF m = "all" THEN
    [mode |-> m, isDragEnabled |-> TRUE, isTransformEnabled |-> TRUE,
     widgets |-> WidgetsOf(TRUE, TRUE, FALSE)]
  ELSE
    [mode |-> m, isDragEnabled |-> FALSE, isTransformEnabled |-> FALSE,
     widgets |-> WidgetsOf(FALSE, FALSE, FALSE)]

\* syncInteractionState with a dropped view-tool test (a mutant of SyncOutcome).
SyncOutcome_NoViewCheck(content, selected, transforming, tool) ==
  IF ~content THEN [listening |-> FALSE, mode |-> "off"]
  ELSE IF selected /\ ~transforming /\ tool = "move"
    THEN [listening |-> TRUE, mode |-> "drag"]
  ELSE IF selected /\ transforming
    THEN [listening |-> TRUE, mode |-> "all"]
  ELSE [listening |-> FALSE, mode |-> "off"]

\* syncInteractionState: the layer-listening flag and the mode it chooses.
SyncOutcome(content, selected, transforming, tool) ==
  IF ~content THEN [listening |-> FALSE, mode |-> "off"]
  ELSE IF selected /\ ~transforming /\ tool = "move"
    THEN [listening |-> TRUE, mode |-> "drag"]
  ELSE IF selected /\ transforming
    THEN IF tool /= "view"
           THEN [listening |-> TRUE, mode |-> "all"]
           ELSE [listening |-> FALSE, mode |-> "off"]
  ELSE [listening |-> FALSE, mode |-> "off"]

\* The outcome of syncInteractionState for transformer t when the store
\* holds selection sel and tool tool and the transforming flag is tr.
SyncOf(t, sel, tool, tr) ==
  SyncOutcome(hasObjects[t], getIsSelected(sel, t), tr, tool)

\* Apply syncInteractionState to every transformer of S (others keep theirs),
\* with the store's selection and tool as given and transforming flags trs.
SyncAll(S, sel, tool, trs) ==
  /\ interactionMode' = [t \in Entities |->
        IF t \in S THEN SyncOf(t, sel, tool, trs[t]).mode ELSE interactionMode[t]]
  /\ layerListening' = [t \in Entities |->
        IF t \in S THEN SyncOf(t, sel, tool, trs[t]).listening ELSE layerListening[t]]
  /\ isDragEnabled' = [t \in Entities |->
        IF t \in S THEN setInteractionMode(SyncOf(t, sel, tool, trs[t]).mode).isDragEnabled
        ELSE isDragEnabled[t]]
  /\ isTransformEnabled' = [t \in Entities |->
        IF t \in S THEN setInteractionMode(SyncOf(t, sel, tool, trs[t]).mode).isTransformEnabled
        ELSE isTransformEnabled[t]]
  /\ widgets' = [t \in Entities |->
        IF t \in S THEN setInteractionMode(SyncOf(t, sel, tool, trs[t]).mode).widgets
        ELSE widgets[t]]

\* ------------------------------------------------------------------------
\* Numbers
\* ------------------------------------------------------------------------

\* Fixed-point resolution: a logical pixel is Unit units.
Unit == 10 * 10 * 10

\* n whole pixels, and p pixels plus f thousandths, as fixed point.
Px(n) == n * Unit
Frac(p, f) == p * Unit + f

Abs(n) == IF n < 0 THEN -n ELSE n

\* Math.sign on an integer numerator.
Sign(n) == IF n > 0 THEN 1 ELSE IF n < 0 THEN -1 ELSE 0

IsInt(v) == v % Unit = 0

\* Math.round of the rational n/d (d > 0), in whole pixels: the nearest
\* integer, ties toward +Infinity.
RoundRat(n, d) == (2 * n + d) \div (2 * d)

\* Math.round of a fixed-point value, as a fixed-point value.
Round(v) == RoundRat(v, Unit) * Unit

RECURSIVE Gcd(_, _)
Gcd(a, b) == IF b = 0 THEN a ELSE Gcd(b, a % b)

\* An extended rational [num, den]: num/den in lowest terms when den > 0;
\* den = 0 stands for the non-finite doubles: num = 1 for +Infinity,
\* num = -1 for -Infinity and num = 0 for NaN.
Rat(n, d) ==
  IF d = 0 THEN [num |-> Sign(n), den |-> 0]
  ELSE IF n = 0 THEN [num |-> 0, den |-> 1]
  ELSE LET g == Gcd(Abs(n), d) IN [num |-> n \div g, den |-> d \div g]

NaN == [num |-> 0, den |-> 0]
IsFinite(r) == r.den > 0
IsNaN(r) == r.den = 0 /\ r.num = 0

\* A fixed-point value as a rational number of pixels.
FromFp(v) == Rat(v, Unit)

\* a + b and a * b on extended rationals, as IEEE doubles combine non-finite
\* operands.
RAdd(a, b) ==
  IF IsNaN(a) \/ IsNaN(b) THEN NaN
  ELSE IF ~IsFinite(a) /\ ~IsFinite(b) THEN (IF a.num = b.num THEN a ELSE NaN)
  ELSE IF ~IsFinite(a) THEN a
  ELSE IF ~IsFinite(b) THEN b
  ELSE Rat(a.num * b.den + b.num * a.den, a.den * b.den)

RMul(a, b) ==
  IF IsNaN(a) \/ IsNaN(b) THEN NaN
  ELSE IF ~IsFinite(a) \/ ~IsFinite(b)
    THEN (IF a.num = 0 \/ b.num = 0 THEN NaN
          ELSE [num |-> Sign(a.num) * Sign(b.num), den |-> 0])
  ELSE Rat(a.num * b.num, a.den * b.den)

\* a / b on extended rationals with a >= 0 or non-finite and b >= 0 finite.
RDiv(a, b) ==
  IF IsNaN(a) THEN NaN
  ELSE IF ~IsFinite(a) THEN a
  ELSE IF b.num = 0 THEN (IF a.num = 0 THEN NaN ELSE [num |-> Sign(a.num), den |-> 0])
  ELSE Rat(a.num * b.den, a.den * b.num)

\* Math.round, Math.abs, Math.sign and Math.max(., 1) on extended rationals.
RRound(r) == IF IsFinite(r) THEN Rat(RoundRat(r.num, r.den), 1) ELSE r
RAbs(r) == [r EXCEPT !.num = Abs(r.num)]
RSign(r) == IF IsNaN(r) THEN NaN ELSE Rat(Sign(r.num), 1)
RMax1(r) ==
  IF IsNaN(r) THEN NaN
  ELSE IF ~IsFinite(r) THEN (IF r.num > 0 THEN r ELSE Rat(1, 1))
  ELSE IF r.num < r.den THEN Rat(1, 1) ELSE r

\* -a, a - b and a / b (any signs) on extended rationals.
RNeg(a) == [a EXCEPT !.num = -a.num]
RSub(a, b) == RAdd(a, RNeg(b))
RQuot(a, b) ==
  IF IsNaN(a) \/ IsNaN(b) THEN NaN
  ELSE IF ~IsFinite(a) /\ ~IsFinite(b) THEN NaN
  ELSE IF ~IsFinite(a) THEN [num |-> a.num * (IF b.num < 0 THEN -1 ELSE 1), den |-> 0]
  ELSE IF ~IsFinite(b) THEN Rat(0, 1)
  ELSE IF b.num = 0 THEN (IF a.num = 0 THEN NaN ELSE [num |-> Sign(a.num), den |-> 0])
  ELSE Rat(a.num * b.den * Sign(b.num), a.den * Abs(b.num))

\* a < b and a <= b as doubles compare: false when either side is NaN.
RLt(a, b) ==
  /\ ~IsNaN(a)
  /\ ~IsNaN(b)
  /\ IF IsFinite(a) /\ IsFinite(b) THEN a.num * b.den < b.num * a.den
     ELSE IF a = b THEN FALSE
     ELSE IF ~IsFinite(a) THEN a.num < 0
     ELSE b.num > 0
RLe(a, b) == ~IsNaN(a) /\ ~IsNaN(b) /\ ~RLt(b, a)

\* Math.min and Math.floor on extended rationals.
RMin(a, b) ==
  IF IsNaN(a) \/ IsNaN(b) THEN NaN
  ELSE IF RLt(b, a) THEN b ELSE a
RFloor(r) == IF IsFinite(r) THEN Rat(r.num \div r.den, 1) ELSE r

\* lodash clamp(number, lower, upper): NaN stays NaN.
clamp(number, lower, upper) ==
  IF IsNaN(number) THEN NaN
  ELSE LET capped == IF RLe(number, upper) THEN number ELSE upper
       IN IF RLe(lower, capped) THEN capped ELSE lower

\* ------------------------------------------------------------------------
\* CanvasTransformer: startTransform / applyTransform / stopTransform
\* ------------------------------------------------------------------------

Op(name, t) == [op |-> name, t |-> t]

\* The parent's resetScale: the visual group's scale returns to identity.
ParentResetScale(g) == [g EXCEPT !.scaleX = Rat(1, 1), !.scaleY = Rat(1, 1)]

geomRestVars == <<stageScale, proxyRect, bboxOutline, parentBbox,
                  dragging, dragOrigin, pointerDelta>>

\* Set the fields of transformer t as setInteractionMode(m) leaves them.
ApplyMode(t, m) ==
  /\ interactionMode' = [interactionMode EXCEPT ![t] = m]
  /\ isDragEnabled' = [isDragEnabled EXCEPT ![t] = setInteractionMode(m).isDragEnabled]
  /\ isTransformEnabled' =
       [isTransformEnabled EXCEPT ![t] = setInteractionMode(m).isTransformEnabled]
  /\ widgets' = [widgets EXCEPT ![t] = setInteractionMode(m).widgets]

\* startTransform that does not raise the transforming flag (a mutant).
StartTransform_NoFlag(t) ==
  /\ isTransforming' = isTransforming
  /\ layerListening' = [layerListening EXCEPT ![t] = (toolSelected /= "view")]
  /\ ApplyMode(t, "all")
  /\ calls' = <<"setInteractionMode(all)">>
  /\ dispatched' = <<>>
  /\ lastOp' = Op("startTransform", t)
  /\ UNCHANGED envVars
  /\ UNCHANGED <<selectedEntityIdentifier, toolSelected, hasObjects, rasterizing>>
  /\ UNCHANGED geomVars

\* startTransform
StartTransform(t) ==
  /\ isTransforming' = [isTransforming EXCEPT ![t] = TRUE]
  /\ layerListening' = [layerListening EXCEPT ![t] = (toolSelected /= "view")]
  /\ ApplyMode(t, "all")
  /\ calls' = <<"setInteractionMode(all)">>
  /\ dispatched' = <<>>
  /\ lastOp' = Op("startTransform", t)
  /\ UNCHANGED envVars
  /\ UNCHANGED <<selectedEntityIdentifier, toolSelected, hasObjects, rasterizing>>
  /\ UNCHANGED geomVars

\* The body of stopTransform for transformer t.
StopTransformBody(t) ==
  /\ isTransforming' = [isTransforming EXCEPT ![t] = FALSE]
  /\ SyncAll({t}, selectedEntityIdentifier, toolSelected, isTransforming')
  /\ objectGroup' = ParentResetScale(objectGroup)
  /\ calls' = <<"setInteractionMode(off)", "parent.resetScale", "parent.updatePosition",
                "parent.updateBbox", "syncInteractionState">>
  /\ dispatched' = <<>>
  /\ UNCHANGED <<selectedEntityIdentifier, toolSelected, hasObjects>>
  /\ UNCHANGED geomRestVars

\* stopTransform that forgets to clear the flag (a mutant).
StopTransform_KeepsFlag(t) ==
  /\ isTransforming' = isTransforming
  /\ SyncAll({t}, selectedEntityIdentifier, toolSelected, isTransforming')
  /\ objectGroup' = ParentResetScale(objectGroup)
  /\ calls' = <<"setInteractionMode(off)", "parent.resetScale", "parent.updatePosition",
                "parent.updateBbox", "syncInteractionState">>
  /\ dispatched' = <<>>
  /\ lastOp' = Op("stopTransform", t)
  /\ UNCHANGED envVars
  /\ UNCHANGED <<selectedEntityIdentifier, toolSelected, hasObjects, rasterizing>>
  /\ UNCHANGED geomRestVars

\* stopTransform, called directly
StopTransform(t) ==
  /\ StopTransformBody(t)
  /\ lastOp' = Op("stopTransform", t)
  /\ UNCHANGED envVars
  /\ UNCHANGED rasterizing

\* applyTransform that stops the transform without awaiting rasterize (a mutant).
ApplyTransform_NoAwait(t) ==
  /\ rasterizing[t] < MaxPending
  /\ rasterizing' = [rasterizing EXCEPT ![t] = @ + 1]
  /\ isTransforming' = [isTransforming EXCEPT ![t] = FALSE]
  /\ SyncAll({t}, selectedEntityIdentifier, toolSelected, isTransforming')
  /\ calls' = <<"parent.rasterize">>
  /\ dispatched' = <<>>
  /\ lastOp' = Op("applyTransform", t)
  /\ UNCHANGED envVars
  /\ UNCHANGED <<selectedEntityIdentifier, toolSelected, hasObjects>>
  /\ UNCHANGED geomVars

\* applyTransform up to its await: the parent's rasterize is started.
ApplyTransform(t) ==
  /\ rasterizing[t] < MaxPending
  /\ rasterizing' = [rasterizing EXCEPT ![t] = @ + 1]
  /\ calls' = <<"parent.rasterize">>
  /\ dispatched' = <<>>
  /\ lastOp' = Op("applyTransform", t)
  /\ UNCHANGED envVars
  /\ UNCHANGED <<selectedEntityIdentifier, toolSelected, hasObjects, isTransforming,
                 interactionMode, isDragEnabled, isTransformEnabled, widgets,
                 layerListening>>
  /\ UNCHANGED geomVars

\* applyTransform after its await: rasterize has completed, stopTransform runs.
RasterizeDone(t) ==
  /\ rasterizing[t] > 0
  /\ rasterizing' = [rasterizing EXCEPT ![t] = @ - 1]
  /\ StopTransformBody(t)
  /\ lastOp' = Op("rasterizeDone", t)
  /\ UNCHANGED envVars

\* syncInteractionState called on transformer t (by its parent).
SyncInteractionState(t) ==
  /\ SyncAll({t}, selectedEntityIdentifier, toolSelected, isTransforming)
  /\ calls' = <<"syncInteractionState">>
  /\ dispatched' = <<>>
  /\ lastOp' = Op("syncInteractionState", t)
  /\ UNCHANGED envVars
  /\ UNCHANGED <<selectedEntityIdentifier, toolSelected, hasObjects, isTransforming,
                 rasterizing>>
  /\ UNCHANGED geomVars

\* The $selectedEntityIdentifier listener: the selection changed, every
\* transformer still subscribed syncs.
SelectEntity(id) ==
  /\ selectedEntityIdentifier' = id
  /\ SyncAll(Listening("selectedEntityIdentifier"), id, toolSelected, isTransforming)
  /\ calls' = <<"syncInteractionState">>
  /\ dispatched' = <<>>
  /\ lastOp' = Op("selectEntity", Null)
  /\ UNCHANGED envVars
  /\ UNCHANGED <<toolSelected, hasObjects, isTransforming, rasterizing>>
  /\ UNCHANGED geomVars

\* The $toolState listener: the selected tool changed, every transformer
\* still subscribed syncs.
SetTool(tool) ==
  /\ tool /= toolSelected
  /\ toolSelected' = tool
  /\ SyncAll(Listening("toolState"), selectedEntityIdentifier, tool, isTransforming)
  /\ calls' = <<"syncInteractionState">>
  /\ dispatched' = <<>>
  /\ lastOp' = Op("setTool", Null)
  /\ UNCHANGED envVars
  /\ UNCHANGED <<selectedEntityIdentifier, hasObjects, isTransforming, rasterizing>>
  /\ UNCHANGED geomVars

\* destroy() may be called this many times on one transformer.
MaxDestroys == 2

\* destroy that leaves the $toolState listener registered (a mutant).
Destroy_KeepsToolListener(t) ==
  /\ destroyCalls[t] < MaxDestroys
  /\ destroyCalls' = [destroyCalls EXCEPT ![t] = @ + 1]
  /\ cleanups' = [cleanups EXCEPT ![t] =
                    [s \in SubscriptionNames |-> IF s = "toolState" THEN @[s] ELSE @[s] + 1]]
  /\ subscriptions' = [subscriptions EXCEPT ![t] = @ \cap {"toolState"}]
  /\ calls' = <<"cleanup", "cleanup", "cleanup", "bboxOutline.destroy",
                "transformer.destroy", "proxyRect.destroy">>
  /\ dispatched' = <<>>
  /\ lastOp' = Op("destroy", t)
  /\ UNCHANGED <<stageVars, anchorVars, lastArgs>>
  /\ UNCHANGED <<modeVars, geomVars>>

\* destroy: every cleanup in this.subscriptions is called (the array is not
\* emptied, a further destroy calls them again), then the three nodes are
\* destroyed.
Destroy(t) ==
  /\ destroyCalls[t] < MaxDestroys
  /\ destroyCalls' = [destroyCalls EXCEPT ![t] = @ + 1]
  /\ cleanups' = [cleanups EXCEPT ![t] = [s \in SubscriptionNames |-> @[s] + 1]]
  /\ subscriptions' = [subscriptions EXCEPT ![t] = {}]
  /\ calls' = <<"cleanup", "cleanup", "cleanup", "cleanup", "bboxOutline.destroy",
                "transformer.destroy", "proxyRect.destroy">>
  /\ dispatched' = <<>>
  /\ lastOp' = Op("destroy", t)
  /\ UNCHANGED <<stageVars, anchorVars, lastArgs>>
  /\ UNCHANGED <<modeVars, geomVars>>

\* The parent's renderer gains its first object or loses its last one.
SetHasObjects(t) ==
  /\ hasObjects' = [hasObjects EXCEPT ![t] = ~@]
  /\ calls' = <<>>
  /\ dispatched' = <<>>
  /\ lastOp' = Op("setHasObjects", t)
  /\ UNCHANGED envVars
  /\ UNCHANGED <<selectedEntityIdentifier, toolSelected, isTransforming, interactionMode,
                 isDragEnabled, isTransformEnabled, widgets, layerListening, rasterizing>>
  /\ UNCHANGED geomVars

\* ------------------------------------------------------------------------
\* CanvasTransformer: geometry of the held transformer
\* ------------------------------------------------------------------------

\* The transformer whose proxy rectangle the pointer works on.
Held == CHOOSE t \in Entities : TRUE

\* Stage scales, entity positions, bounding boxes, pointer offsets and the
\* attributes the transform control assigns, as inputs.
StageScales == {Px(1), Px(2)}

Coord(x, y) == [x |-> x, y |-> y]
RectOf(x, y, w, h) == [x |-> x, y |-> y, width |-> w, height |-> h]

Positions == {Coord(Px(10), Px(10))}

Bboxes == {RectOf(0, 0, Px(100), Px(50)), RectOf(Frac(7, 500), -Frac(2, 500), Px(3), Px(1))}

PointerDeltas == {Coord(Frac(33, 400), -Frac(5, 600)), Coord(Frac(20, 500), Frac(1, 500))}

\* Cap on the distance, in pixels, a drag may take the proxy from the origin
\* of the logical space.
MaxCoord == 45

\* Attributes the transform control assigns to the proxy while an anchor is
\* dragged: position, scale factors (stretched, flipped, collapsed to zero,
\* shrunk below half a pixel) and rotation in degrees.
TransformAttrs ==
  {[pos |-> Coord(Frac(12, 400), -Frac(7, 500)), scaleX |-> Rat(1236, 1000),
    scaleY |-> Rat(-1, 2), rotation |-> 0],
   [pos |-> Coord(Px(3), Px(4)), scaleX |-> Rat(-1236, 1000),
    scaleY |-> Rat(4, 1000), rotation |-> 45],
   [pos |-> Coord(Frac(12, 400), -Frac(7, 500)), scaleX |-> Rat(0, 1),
    scaleY |-> Rat(3, 2), rotation |-> 0],
   [pos |-> Coord(Px(3), Px(4)), scaleX |-> Rat(-4, 1000),
    scaleY |-> Rat(0, 1), rotation |-> 30]}

\* CanvasStageModule.getScaledPixels: pixels / this.getScale()
getScaledPixels(pixels, scale) == (pixels * Unit) \div scale

\* manager.getScaledPixel(): one screen pixel in logical units.
getScaledPixel(scale) == getScaledPixels(Px(1), scale)

\* The padding of the bbox outline in screen pixels.
BboxPaddingPx == 5

\* manager.getScaledBboxPadding(): the outline padding in logical units.
getScaledBboxPadding(scale) == getScaledPixels(Px(BboxPaddingPx), scale)

\* update(position, bbox): the outline and proxy rectangle it leaves.
update(position, bbox, scale, proxy, outline) ==
  LET onePixel == getScaledPixel(scale)
      bboxPadding == getScaledBboxPadding(scale)
  IN [bboxOutline |->
        [outline EXCEPT !.x = position.x + bbox.x - bboxPadding,
                        !.y = position.y + bbox.y - bboxPadding,
                        !.width = FromFp(bbox.width + bboxPadding * 2),
                        !.height = FromFp(bbox.height + bboxPadding * 2),
                        !.strokeWidth = onePixel],
      proxyRect |->
        [proxy EXCEPT !.x = position.x + bbox.x,
                      !.y = position.y + bbox.y,
                      !.width = bbox.width,
                      !.height = bbox.height]]

\* syncScale(): the outline it leaves.
syncScale(scale, proxy, outline) ==
  LET onePixel == getScaledPixel(scale)
      bboxPadding == getScaledBboxPadding(scale)
  IN [outline EXCEPT
        !.x = proxy.x - bboxPadding,
        !.y = proxy.y - bboxPadding,
        !.width = RAdd(RMul(FromFp(proxy.width), proxy.scaleX), FromFp(bboxPadding * 2)),
        !.height = RAdd(RMul(FromFp(proxy.height), proxy.scaleY), FromFp(bboxPadding * 2)),
        !.strokeWidth = onePixel]

\* The parent recomputes its bbox and passes it, with the entity's position,
\* to the transformer's update.
ParentUpdateBbox(position, bbox) ==
  /\ parentBbox' = bbox
  /\ proxyRect' = update(position, bbox, stageScale, proxyRect, bboxOutline).proxyRect
  /\ bboxOutline' = update(position, bbox, stageScale, proxyRect, bboxOutline).bboxOutline
  /\ calls' = <<"update">>
  /\ dispatched' = <<>>
  /\ lastOp' = Op("update", Held)
  /\ UNCHANGED envVars
  /\ UNCHANGED <<stageScale, objectGroup, dragging, dragOrigin, pointerDelta>>
  /\ UNCHANGED modeVars

\* The $stageAttrs listener: the stage scale changed, syncScale runs.
SetStageScale(scale) ==
  /\ scale /= stageScale
  /\ stageScale' = scale
  /\ bboxOutline' = IF Held \in Listening("stageAttrs")
                      THEN syncScale(scale, proxyRect, bboxOutline)
                      ELSE bboxOutline
  /\ calls' = IF Held \in Listening("stageAttrs")
                THEN <<"syncScale", "transformer.forceUpdate">> ELSE <<>>
  /\ dispatched' = <<>>
  /\ lastOp' = Op("setStageScale", Held)
  /\ UNCHANGED envVars
  /\ UNCHANGED <<proxyRect, objectGroup, parentBbox, dragging, dragOrigin, pointerDelta>>
  /\ UNCHANGED modeVars

\* CanvasStateApi.onPosChanged: the store actions it dispatches.
onPosChanged(arg, entityType) ==
  IF entityType = "layer" THEN <<[type |-> "layerTranslated", arg |-> arg]>>
  ELSE IF entityType = "regional_guidance" THEN <<[type |-> "rgTranslated", arg |-> arg]>>
  ELSE IF entityType = "inpaint_mask" THEN <<[type |-> "imTranslated", arg |-> arg]>>
  ELSE IF entityType = "control_adapter" THEN <<[type |-> "caTranslated", arg |-> arg]>>
  ELSE <<>>

\* dragmove handler that does not snap to the pixel grid (a mutant).
DragTarget_NoRound(origin, delta, scale) ==
  Coord(origin.x + getScaledPixels(delta.x, scale),
        origin.y + getScaledPixels(delta.y, scale))

\* The proxy position of a drag: konva places the proxy at its position at
\* the start of the drag plus the pointer offset in logical pixels; the
\* dragmove handler then rounds it.
DragTarget(origin, delta, scale) ==
  Coord(Round(origin.x + getScaledPixels(delta.x, scale)),
        Round(origin.y + getScaledPixels(delta.y, scale)))

\* dragmove handler that commits every intermediate position (a mutant).
DragMove_Commits(delta) ==
  /\ isDragEnabled[Held]
  /\ LET origin == IF dragging THEN dragOrigin ELSE Coord(proxyRect.x, proxyRect.y)
     IN /\ Abs(DragTarget(origin, delta, stageScale).x) <= Px(MaxCoord)
        /\ Abs(DragTarget(origin, delta, stageScale).y) <= Px(MaxCoord)
  /\ dragging' = TRUE
  /\ dragOrigin' = IF dragging THEN dragOrigin ELSE Coord(proxyRect.x, proxyRect.y)
  /\ pointerDelta' = delta
  /\ proxyRect' = [proxyRect EXCEPT !.x = DragTarget(dragOrigin', delta, stageScale).x,
                                    !.y = DragTarget(dragOrigin', delta, stageScale).y]
  /\ bboxOutline' = [bboxOutline EXCEPT
                       !.x = proxyRect'.x - getScaledBboxPadding(stageScale),
                       !.y = proxyRect'.y - getScaledBboxPadding(stageScale)]
  /\ objectGroup' = [objectGroup EXCEPT !.x = proxyRect'.x, !.y = proxyRect'.y]
  /\ calls' = <<"onPosChanged">>
  /\ dispatched' = onPosChanged([id |-> Held,
                                 position |-> Coord(proxyRect'.x - parentBbox.x,
                                                    proxyRect'.y - parentBbox.y)], "layer")
  /\ lastOp' = Op("dragmove", Held)
  /\ UNCHANGED envVars
  /\ UNCHANGED <<stageScale, parentBbox>>
  /\ UNCHANGED modeVars

\* The proxyRect dragmove handler, for a pointer offset delta from the
\* start of the drag.
DragMove(delta) ==
  /\ isDragEnabled[Held]
  /\ LET origin == IF dragging THEN dragOrigin ELSE Coord(proxyRect.x, proxyRect.y)
     IN /\ Abs(DragTarget(origin, delta, stageScale).x) <= Px(MaxCoord)
        /\ Abs(DragTarget(origin, delta, stageScale).y) <= Px(MaxCoord)
  /\ dragging' = TRUE
  /\ dragOrigin' = IF dragging THEN dragOrigin ELSE Coord(proxyRect.x, proxyRect.y)
  /\ pointerDelta' = delta
  /\ proxyRect' = [proxyRect EXCEPT !.x = DragTarget(dragOrigin', delta, stageScale).x,
                                    !.y = DragTarget(dragOrigin', delta, stageScale).y]
  /\ bboxOutline' = [bboxOutline EXCEPT
                       !.x = proxyRect'.x - getScaledBboxPadding(stageScale),
                       !.y = proxyRect'.y - getScaledBboxPadding(stageScale)]
  /\ objectGroup' = [objectGroup EXCEPT !.x = proxyRect'.x, !.y = proxyRect'.y]
  /\ calls' = <<>>
  /\ dispatched' = <<>>
  /\ lastOp' = Op("dragmove", Held)
  /\ UNCHANGED envVars
  /\ UNCHANGED <<stageScale, parentBbox>>
  /\ UNCHANGED modeVars

\* dragend handler that commits even while transforming (a mutant).
DragEnd_AlwaysCommits ==
  /\ dragging
  /\ dragging' = FALSE
  /\ dispatched' = onPosChanged([id |-> Held,
                                 position |-> Coord(proxyRect.x - parentBbox.x,
                                                    proxyRect.y - parentBbox.y)], "layer")
  /\ calls' = <<"onPosChanged">>
  /\ dragOrigin' = Coord(0, 0)
  /\ pointerDelta' = Coord(0, 0)
  /\ lastOp' = Op("dragend", Held)
  /\ UNCHANGED envVars
  /\ UNCHANGED <<stageScale, proxyRect, bboxOutline, objectGroup, parentBbox>>
  /\ UNCHANGED modeVars

\* dragend handler that commits the displacement of the drag (a mutant).
DragEnd_CommitsDelta ==
  /\ dragging
  /\ dragging' = FALSE
  /\ IF isTransforming[Held]
       THEN dispatched' = <<>> /\ calls' = <<>>
       ELSE /\ dispatched' = onPosChanged([id |-> Held,
                                           position |-> Coord(proxyRect.x - dragOrigin.x,
                                                              proxyRect.y - dragOrigin.y)],
                                          "layer")
            /\ calls' = <<"onPosChanged">>
  /\ dragOrigin' = Coord(0, 0)
  /\ pointerDelta' = Coord(0, 0)
  /\ lastOp' = Op("dragend", Held)
  /\ UNCHANGED envVars
  /\ UNCHANGED <<stageScale, proxyRect, bboxOutline, objectGroup, parentBbox>>
  /\ UNCHANGED modeVars

\* The proxyRect dragend handler.
DragEnd ==
  /\ dragging
  /\ dragging' = FALSE
  /\ IF isTransforming[Held]
       THEN dispatched' = <<>> /\ calls' = <<>>
       ELSE /\ dispatched' = onPosChanged([id |-> Held,
                                           position |-> Coord(proxyRect.x - parentBbox.x,
                                                              proxyRect.y - parentBbox.y)],
                                          "layer")
            /\ calls' = <<"onPosChanged">>
  /\ dragOrigin' = Coord(0, 0)
  /\ pointerDelta' = Coord(0, 0)
  /\ lastOp' = Op("dragend", Held)
  /\ UNCHANGED envVars
  /\ UNCHANGED <<stageScale, proxyRect, bboxOutline, objectGroup, parentBbox>>
  /\ UNCHANGED modeVars

\* The transformer's transform handler: the transform control has assigned
\* position, scale and rotation to the proxy; the visual group follows.
Transform(attrs) ==
  /\ isTransformEnabled[Held]
  /\ ~dragging
  /\ proxyRect' = [proxyRect EXCEPT !.x = attrs.pos.x, !.y = attrs.pos.y,
                                    !.scaleX = attrs.scaleX, !.scaleY = attrs.scaleY,
                                    !.rotation = attrs.rotation]
  /\ objectGroup' = [objectGroup EXCEPT !.x = proxyRect'.x, !.y = proxyRect'.y,
                                        !.scaleX = proxyRect'.scaleX,
                                        !.scaleY = proxyRect'.scaleY,
                                        !.rotation = proxyRect'.rotation]
  /\ calls' = <<>>
  /\ dispatched' = <<>>
  /\ lastOp' = Op("transform", Held)
  /\ UNCHANGED envVars
  /\ UNCHANGED <<stageScale, bboxOutline, parentBbox, dragging, dragOrigin, pointerDelta>>
  /\ UNCHANGED modeVars

\* transformend: Math.max(Math.abs(Math.round(size * scale)), 1)
TargetSize(size, scale) == RMax1(RAbs(RRound(RMul(FromFp(size), scale))))

\* transformend: (target / size) * Math.sign(scale)
SnappedScale(size, scale) ==
  RMul(RDiv(TargetSize(size, scale), FromFp(size)), RSign(scale))

\* The transformer's transformend handler.
\* transformend that snaps the proxy rect and leaves the visual group as the
\* last transform event set it (a mutant).
TransformEnd_ProxyOnly ==
  /\ isTransformEnabled[Held]
  /\ ~dragging
  /\ proxyRect' = [proxyRect EXCEPT
                     !.x = Round(proxyRect.x),
                     !.y = Round(proxyRect.y),
                     !.scaleX = SnappedScale(proxyRect.width, proxyRect.scaleX),
                     !.scaleY = SnappedScale(proxyRect.height, proxyRect.scaleY)]
  /\ objectGroup' = objectGroup
  /\ calls' = <<>>
  /\ dispatched' = <<>>
  /\ lastOp' = Op("transformend", Held)
  /\ UNCHANGED envVars
  /\ UNCHANGED <<stageScale, bboxOutline, parentBbox, dragging, dragOrigin, pointerDelta>>
  /\ UNCHANGED modeVars

TransformEnd ==
  /\ isTransformEnabled[Held]
  /\ ~dragging
  /\ proxyRect' = [proxyRect EXCEPT
                     !.x = Round(proxyRect.x),
                     !.y = Round(proxyRect.y),
                     !.scaleX = SnappedScale(proxyRect.width, proxyRect.scaleX),
                     !.scaleY = SnappedScale(proxyRect.height, proxyRect.scaleY)]
  /\ objectGroup' = [objectGroup EXCEPT !.x = proxyRect'.x, !.y = proxyRect'.y,
                                        !.scaleX = proxyRect'.scaleX,
                                        !.scaleY = proxyRect'.scaleY]
  /\ calls' = <<>>
  /\ dispatched' = <<>>
  /\ lastOp' = Op("transformend", Held)
  /\ UNCHANGED envVars
  /\ UNCHANGED <<stageScale, bboxOutline, parentBbox, dragging, dragOrigin, pointerDelta>>
  /\ UNCHANGED modeVars

\* ------------------------------------------------------------------------
\* CanvasStageModule: the viewport
\* ------------------------------------------------------------------------
\* Stage offsets and scales are extended rationals in pixels; container,
\* stage and rect sizes and rect origins are whole pixels.

MIN_CANVAS_SCALE == Rat(1, 10)
MAX_CANVAS_SCALE == Rat(20, 1)

\* fitRect: const padding = 20
padding == 20

\* Cap on the setScale calls between two fits.
MaxZooms == 2

\* Container sizes: a laid-out container, one exactly as wide as the total
\* padding, and one that has no layout yet.
ContainerSizes == {[width |-> 540, height |-> 340], [width |-> 40, height |-> 340],
                   [width |-> 0, height |-> 0]}

\* Rects handed to fitRect: larger than the stage, smaller than it, far larger
\* than it, and of zero size.
StageRects == {RectOf(0, 0, 1000, 1000), RectOf(-50, 20, 100, 50),
               RectOf(0, 0, 10000, 10000), RectOf(10, 10, 0, 0)}

\* Scales requested of setScale, and its center argument: omitted, or a
\* point of the screen.
ScaleRequests == {Rat(1236, 1000), Rat(4, 1000), Rat(25, 1)}
Centers == {[given |-> FALSE, point |-> [x |-> Rat(0, 1), y |-> Rat(0, 1)]],
            [given |-> TRUE, point |-> [x |-> Rat(100, 1), y |-> Rat(50, 1)]]}

\* The entity adapters of the manager, by collection.
Collections == <<"inpaintMaskAdapters", "rasterLayerAdapters", "controlLayerAdapters",
                 "regionalGuidanceAdapters">>
AdapterIds == {"inpaint_mask_1", "raster_layer_1", "control_layer_1", "regional_guidance_1"}
CollectionOf(a) ==
  IF a = "inpaint_mask_1" THEN "inpaintMaskAdapters"
  ELSE IF a = "raster_layer_1" THEN "rasterLayerAdapters"
  ELSE IF a = "control_layer_1" THEN "controlLayerAdapters"
  ELSE "regionalGuidanceAdapters"

\* Rects of the entities, and the generation bounding boxes of the store.
EntityRects == {RectOf(0, 0, 100, 50), RectOf(-30, 40, 60, 200), RectOf(7, 7, 0, 0)}
GenBboxes == {RectOf(0, 0, 512, 512)}

\* adapter.transformer.getRelativeRect()
getRelativeRect(adapter) == adapter.rect

\* getRectUnion(...rects): the smallest rect containing every rect of the
\* sequence; the empty rect for no rects.
RECURSIVE getRectUnion(_)
getRectUnion(rects) ==
  IF Len(rects) = 0 THEN RectOf(0, 0, 0, 0)
  ELSE IF Len(rects) = 1 THEN rects[1]
  ELSE LET acc == getRectUnion(SubSeq(rects, 1, Len(rects) - 1))
           r == rects[Len(rects)]
           x == IF r.x < acc.x THEN r.x ELSE acc.x
           y == IF r.y < acc.y THEN r.y ELSE acc.y
           right == IF r.x + r.width > acc.x + acc.width THEN r.x + r.width
                    ELSE acc.x + acc.width
           bottom == IF r.y + r.height > acc.y + acc.height THEN r.y + r.height
                     ELSE acc.y + acc.height
       IN RectOf(x, y, right - x, bottom - y)

\* The rects getVisibleRect pushes for one collection: those of its enabled
\* adapters.
RECURSIVE RectsOfCollection(_, _, _)
RectsOfCollection(ads, collection, ids) ==
  IF ids = {} THEN <<>>
  ELSE LET a == CHOOSE i \in ids : TRUE
           rest == RectsOfCollection(ads, collection, ids \ {a})
       IN IF CollectionOf(a) = collection /\ ads[a].isEnabled
            THEN <<getRelativeRect(ads[a])>> \o rest
            ELSE rest

\* getVisibleRect with every adapter contributing, enabled or not (a mutant).
getVisibleRect_IgnoresEnabled(ads, bbox) ==
  LET all == [a \in AdapterIds |-> [ads[a] EXCEPT !.isEnabled = TRUE]]
      rects == RectsOfCollection(all, Collections[1], AdapterIds)
               \o RectsOfCollection(all, Collections[2], AdapterIds)
               \o RectsOfCollection(all, Collections[3], AdapterIds)
               \o RectsOfCollection(all, Collections[4], AdapterIds)
      rectUnion == getRectUnion(rects)
  IN IF rectUnion.width = 0 \/ rectUnion.height = 0 THEN bbox ELSE rectUnion

\* getVisibleRect(): the union of the enabled adapters' rects, or the bbox.
getVisibleRect(ads, bbox) ==
  LET rects == RectsOfCollection(ads, Collections[1], AdapterIds)
               \o RectsOfCollection(ads, Collections[2], AdapterIds)
               \o RectsOfCollection(ads, Collections[3], AdapterIds)
               \o RectsOfCollection(ads, Collections[4], AdapterIds)
      rectUnion == getRectUnion(rects)
  IN IF rectUnion.width = 0 \/ rectUnion.height = 0 THEN bbox ELSE rectUnion

\* The attributes fitStageToContainer and setScale publish, before rounding.
PublishedOf(stg) ==
  [x |-> stg.x, y |-> stg.y, width |-> stg.width, height |-> stg.height,
   scale |-> stg.scaleX]

\* fitStageToContainer, the container having the given size (it is also the
\* ResizeObserver callback).
FitStageToContainer(size) ==
  /\ container' = size
  /\ stage' = [stage EXCEPT !.width = size.width, !.height = size.height]
  /\ stageAttrs' = PublishedOf(stage')
  /\ lastArgs' = [size |-> size]
  /\ calls' = <<"$stageAttrs.set">>
  /\ dispatched' = <<>>
  /\ lastOp' = Op("fitStageToContainer", Null)
  /\ UNCHANGED <<adapters, genBbox, zooms>>
  /\ UNCHANGED <<modeVars, geomVars, anchorVars, lifeVars>>

\* fitRect with the scale capped from above only by the rect, not by 1 (a mutant).
fitRect_NoUnitCap(rect, stg) ==
  LET availableWidth == Rat(stg.width - padding * 2, 1)
      availableHeight == Rat(stg.height - padding * 2, 1)
      scale == RMin(RQuot(availableWidth, Rat(rect.width, 1)),
                    RQuot(availableHeight, Rat(rect.height, 1)))
      x == RAdd(RAdd(RMul(RNeg(Rat(rect.x, 1)), scale), Rat(padding, 1)),
                RQuot(RSub(availableWidth, RMul(Rat(rect.width, 1), scale)), Rat(2, 1)))
      y == RAdd(RAdd(RMul(RNeg(Rat(rect.y, 1)), scale), Rat(padding, 1)),
                RQuot(RSub(availableHeight, RMul(Rat(rect.height, 1), scale)), Rat(2, 1)))
  IN [x |-> x, y |-> y, scale |-> scale]

\* fitRect that pads the left and top by twice the padding (a mutant).
fitRect_OffCentre(rect, stg) ==
  LET availableWidth == Rat(stg.width - padding * 2, 1)
      availableHeight == Rat(stg.height - padding * 2, 1)
      scale == RMin(RMin(RQuot(availableWidth, Rat(rect.width, 1)),
                         RQuot(availableHeight, Rat(rect.height, 1))),
                    Rat(1, 1))
      x == RAdd(RAdd(RMul(RNeg(Rat(rect.x, 1)), scale), Rat(padding * 2, 1)),
                RQuot(RSub(availableWidth, RMul(Rat(rect.width, 1), scale)), Rat(2, 1)))
      y == RAdd(RAdd(RMul(RNeg(Rat(rect.y, 1)), scale), Rat(padding * 2, 1)),
                RQuot(RSub(availableHeight, RMul(Rat(rect.height, 1), scale)), Rat(2, 1)))
  IN [x |-> x, y |-> y, scale |-> scale]

\* fitRect(rect): the offset and scale it computes from the stage size.
fitRect(rect, stg) ==
  LET availableWidth == Rat(stg.width - padding * 2, 1)
      availableHeight == Rat(stg.height - padding * 2, 1)
      scale == RMin(RMin(RQuot(availableWidth, Rat(rect.width, 1)),
                         RQuot(availableHeight, Rat(rect.height, 1))),
                    Rat(1, 1))
      x == RAdd(RAdd(RMul(RNeg(Rat(rect.x, 1)), scale), Rat(padding, 1)),
                RQuot(RSub(availableWidth, RMul(Rat(rect.width, 1), scale)), Rat(2, 1)))
      y == RAdd(RAdd(RMul(RNeg(Rat(rect.y, 1)), scale), Rat(padding, 1)),
                RQuot(RSub(availableHeight, RMul(Rat(rect.height, 1), scale)), Rat(2, 1)))
  IN [x |-> x, y |-> y, scale |-> scale]

\* What a call of fitRect(rect) leaves, whoever makes it.
FitRectBody(rect, name) ==
  /\ stage' = [stage EXCEPT !.x = fitRect(rect, stage).x, !.y = fitRect(rect, stage).y,
                            !.scaleX = fitRect(rect, stage).scale,
                            !.scaleY = fitRect(rect, stage).scale]
  /\ stageAttrs' = [stageAttrs EXCEPT !.x = fitRect(rect, stage).x,
                                      !.y = fitRect(rect, stage).y,
                                      !.scale = fitRect(rect, stage).scale]
  /\ zooms' = 0
  /\ lastArgs' = [rect |-> rect]
  /\ calls' = <<"fitRect", "$stageAttrs.set">>
  /\ dispatched' = <<>>
  /\ lastOp' = Op(name, Null)
  /\ UNCHANGED <<container, adapters, genBbox>>
  /\ UNCHANGED <<modeVars, geomVars, anchorVars, lifeVars>>

FitRect(rect) == FitRectBody(rect, "fitRect")

\* fitBboxToStage(): fitRect(getBbox().rect)
FitBboxToStage == FitRectBody(genBbox, "fitBboxToStage")

\* fitLayersToStage(): fitRect(getVisibleRect())
FitLayersToStage == FitRectBody(getVisibleRect(adapters, genBbox), "fitLayersToStage")

\* stage.getAbsoluteTransform().point(p) of an unrotated stage: the matrix
\* [scaleX, 0, 0, scaleY, x, y] applied to p.
AbsolutePoint(stg, p) ==
  [x |-> RAdd(RAdd(RMul(stg.scaleX, p.x), RMul(Rat(0, 1), p.y)), stg.x),
   y |-> RAdd(RAdd(RMul(Rat(0, 1), p.x), RMul(stg.scaleY, p.y)), stg.y)]

\* getCenter(absolute)
getCenter(absolute, stg) ==
  LET center == [x |-> RQuot(RSub(Rat(stg.width, 2), stg.x), stg.scaleX),
                 y |-> RQuot(RSub(Rat(stg.height, 2), stg.y), stg.scaleX)]
  IN IF absolute THEN AbsolutePoint(stg, center) ELSE center

\* The center setScale works with: the one passed, or getCenter(true).
CenterOf(center, stg) == IF center.given THEN center.point ELSE getCenter(TRUE, stg)

\* setScale without the rounding to hundredths (a mutant).
setScale_NoRound(scale, center, stg) ==
  LET newScale == clamp(scale, MIN_CANVAS_SCALE, MAX_CANVAS_SCALE)
      deltaX == RQuot(RSub(center.x, stg.x), stg.scaleX)
      deltaY == RQuot(RSub(center.y, stg.y), stg.scaleX)
  IN [x |-> RSub(center.x, RMul(deltaX, newScale)),
      y |-> RSub(center.y, RMul(deltaY, newScale)),
      scale |-> newScale]

\* setScale that keeps the stage offset (a mutant).
setScale_KeepsOffset(scale, center, stg) ==
  LET newScale == clamp(RQuot(RRound(RMul(scale, Rat(100, 1))), Rat(100, 1)),
                        MIN_CANVAS_SCALE, MAX_CANVAS_SCALE)
  IN [x |-> stg.x, y |-> stg.y, scale |-> newScale]

\* setScale(scale, center): the offset and scale it computes.
setScale(scale, center, stg) ==
  LET newScale == clamp(RQuot(RRound(RMul(scale, Rat(100, 1))), Rat(100, 1)),
                        MIN_CANVAS_SCALE, MAX_CANVAS_SCALE)
      deltaX == RQuot(RSub(center.x, stg.x), stg.scaleX)
      deltaY == RQuot(RSub(center.y, stg.y), stg.scaleX)
  IN [x |-> RSub(center.x, RMul(deltaX, newScale)),
      y |-> RSub(center.y, RMul(deltaY, newScale)),
      scale |-> newScale]

\* A call of setScale(scale, center), with or without the center.
\* setScale that publishes the live position unfloored (a mutant).
SetScale_PublishesExact(scale, center) ==
  /\ zooms < MaxZooms
  /\ zooms' = zooms + 1
  /\ LET c == CenterOf(center, stage)
         new == setScale(scale, c, stage)
     IN /\ stage' = [stage EXCEPT !.x = new.x, !.y = new.y,
                                  !.scaleX = new.scale, !.scaleY = new.scale]
        /\ lastArgs' = [scale |-> scale, center |-> c, given |-> center.given]
  /\ stageAttrs' = PublishedOf(stage')
  /\ calls' = <<"$stageAttrs.set">>
  /\ dispatched' = <<>>
  /\ lastOp' = Op("setScale", Null)
  /\ UNCHANGED <<container, adapters, genBbox>>
  /\ UNCHANGED <<modeVars, geomVars, anchorVars, lifeVars>>

SetScale(scale, center) ==
  /\ zooms < MaxZooms
  /\ zooms' = zooms + 1
  /\ LET c == CenterOf(center, stage)
         new == setScale(scale, c, stage)
     IN /\ stage' = [stage EXCEPT !.x = new.x, !.y = new.y,
                                  !.scaleX = new.scale, !.scaleY = new.scale]
        /\ lastArgs' = [scale |-> scale, center |-> c, given |-> center.given]
  /\ stageAttrs' = [PublishedOf(stage') EXCEPT !.x = RFloor(stage'.x),
                                               !.y = RFloor(stage'.y)]
  /\ calls' = <<"$stageAttrs.set">>
  /\ dispatched' = <<>>
  /\ lastOp' = Op("setScale", Null)
  /\ UNCHANGED <<container, adapters, genBbox>>
  /\ UNCHANGED <<modeVars, geomVars, anchorVars, lifeVars>>

\* An entity is enabled or disabled, or its content changes its rect.
SetAdapter(a, isEnabled, rect) ==
  /\ adapters[a] /= [isEnabled |-> isEnabled, rect |-> rect]
  /\ adapters' = [adapters EXCEPT ![a] = [isEnabled |-> isEnabled, rect |-> rect]]
  /\ lastArgs' = [id |-> a]
  /\ calls' = <<>>
  /\ dispatched' = <<>>
  /\ lastOp' = Op("setAdapter", Null)
  /\ UNCHANGED <<container, stage, stageAttrs, genBbox, zooms>>
  /\ UNCHANGED <<modeVars, geomVars, anchorVars, lifeVars>>

\* The stage after initialize() has run fitStageToContainer on a fresh stage.
InitStageOf(size) ==
  [x |-> Rat(0, 1), y |-> Rat(0, 1), width |-> size.width, height |-> size.height,
   scaleX |-> Rat(1, 1), scaleY |-> Rat(1, 1)]

\* ------------------------------------------------------------------------
\* CanvasTransformer: the transform control's bounding-box constraint
\* ------------------------------------------------------------------------
\* A bounding box carries its rotation as a fixed-point number of degrees:
\* the rotation r stands for r * PI / (180 * Unit) radians, and QuarterPi for
\* Math.PI / 4.

QuarterPi == Px(45)

\* The anchors of the transform control a pointer can grab.
Anchors == {"rotater", "top-left", "middle-right"}

BoxOf(w, r) == [x |-> 10, y |-> 10, width |-> w, height |-> 50, rotation |-> r]

\* Rotations of candidate boxes: multiples of 45 degrees of either sign, and
\* rotations between them.
BoxRotations == {0, Px(45), Px(90), -Px(45), Px(315), Px(30), Frac(44, 999), -Frac(22, 500)}

CandidateBoxes == {BoxOf(w, r) : w \in {100, 120}, r \in BoxRotations}

\* a % b of JavaScript for b > 0: the remainder has the sign of a.
JsRem(a, b) == Sign(a) * (Abs(a) % b)

\* boundBoxFunc that rejects off-grid rotations whether or not shift is held
\* (a mutant).
boundBoxFunc_NoShiftCheck(oldBoundBox, newBoundBox, anchor, shift) ==
  IF anchor /= "rotater" THEN newBoundBox
  ELSE IF Abs(JsRem(newBoundBox.rotation, QuarterPi)) > 0 THEN oldBoundBox
  ELSE newBoundBox

\* boundBoxFunc(oldBoundBox, newBoundBox), the active anchor and $shiftKey
\* being as given.
boundBoxFunc(oldBoundBox, newBoundBox, anchor, shift) ==
  IF anchor /= "rotater" THEN newBoundBox
  ELSE IF shift /\ Abs(JsRem(newBoundBox.rotation, QuarterPi)) > 0 THEN oldBoundBox
  ELSE newBoundBox

\* The $shiftKey listener: the shift key goes down or up.
SetShiftKey(down) ==
  /\ down /= shiftKey
  /\ shiftKey' = down
  /\ rotationSnaps' = IF Held \notin Listening("shiftKey") THEN rotationSnaps
                        ELSE IF down THEN <<0, 45, 90, 135, 180, 225, 270, 315>>
                        ELSE <<>>
  /\ lastArgs' = [down |-> down]
  /\ calls' = IF Held \in Listening("shiftKey")
                THEN <<"transformer.rotationSnaps">> ELSE <<>>
  /\ dispatched' = <<>>
  /\ lastOp' = Op("setShiftKey", Held)
  /\ UNCHANGED <<activeAnchor, boundBox>>
  /\ UNCHANGED <<modeVars, geomVars, stageVars, lifeVars>>

\* The pointer goes down on an anchor of the transform control.
GrabAnchor(anchor) ==
  /\ isTransformEnabled[Held]
  /\ anchor /= activeAnchor
  /\ activeAnchor' = anchor
  /\ lastArgs' = [anchor |-> anchor]
  /\ calls' = <<>>
  /\ dispatched' = <<>>
  /\ lastOp' = Op("grabAnchor", Held)
  /\ UNCHANGED <<shiftKey, rotationSnaps, boundBox>>
  /\ UNCHANGED <<modeVars, geomVars, stageVars, lifeVars>>

\* The transform control proposes newBoundBox while an anchor is held and
\* takes what boundBoxFunc returns.
BoundBox(newBoundBox) ==
  /\ isTransformEnabled[Held]
  /\ activeAnchor /= Null
  /\ boundBox' = boundBoxFunc(boundBox, newBoundBox, activeAnchor, shiftKey)
  /\ lastArgs' = [oldBoundBox |-> boundBox, newBoundBox |-> newBoundBox]
  /\ calls' = <<"boundBoxFunc">>
  /\ dispatched' = <<>>
  /\ lastOp' = Op("boundBoxFunc", Held)
  /\ UNCHANGED <<shiftKey, rotationSnaps, activeAnchor>>
  /\ UNCHANGED <<modeVars, geomVars, stageVars, lifeVars>>

\* a % b on extended rationals as JavaScript computes it: the remainder
\* takes the sign of the dividend; NaN for a non-finite dividend or a zero
\* divisor, the dividend itself for an infinite divisor.
RRem(a, b) ==
  IF IsNaN(a) \/ IsNaN(b) \/ ~IsFinite(a) THEN NaN
  ELSE IF ~IsFinite(b) THEN a
  ELSE IF b.num = 0 THEN NaN
  ELSE LET q == RQuot(a, b)
           trunc == Rat(Sign(q.num) * (Abs(q.num) \div q.den), 1)
       IN RSub(a, RMul(b, trunc))

\* manager.getStageScale() and manager.getStagePosition(): the live scale
\* and position of the stage.
getStageScale(stg) == stg.scaleX
getStagePosition(stg) == [x |-> stg.x, y |-> stg.y]

\* Candidate absolute positions Konva offers for a dragged anchor.
AnchorPositions == {[x |-> Rat(1003, 10), y |-> Rat(-75, 2)],
                    [x |-> Rat(250, 1), y |-> Rat(7, 4)]}

\* anchorDragBoundFunc that does not correct for the stage's offset (a mutant).
anchorDragBoundFunc_NoOffset(newPos, anchor, stg) ==
  IF anchor = "rotater" THEN newPos
  ELSE
    LET scale == getStageScale(stg)
        targetX == RRound(RQuot(newPos.x, scale))
        targetY == RRound(RQuot(newPos.y, scale))
    IN [x |-> RMul(targetX, scale), y |-> RMul(targetY, scale)]

\* anchorDragBoundFunc: the rotate handle is left alone; any other anchor is
\* moved to the nearest logical pixel, shifted by the stage's sub-pixel offset.
anchorDragBoundFunc(newPos, anchor, stg) ==
  IF anchor = "rotater" THEN newPos
  ELSE
    LET scale == getStageScale(stg)
        stagePos == getStagePosition(stg)
        targetX == RRound(RQuot(newPos.x, scale))
        targetY == RRound(RQuot(newPos.y, scale))
        scaledOffsetX == RRem(stagePos.x, scale)
        scaledOffsetY == RRem(stagePos.y, scale)
        scaledTargetX == RAdd(RMul(targetX, scale), scaledOffsetX)
        scaledTargetY == RAdd(RMul(targetY, scale), scaledOffsetY)
    IN [x |-> scaledTargetX, y |-> scaledTargetY]

\* Konva asks where the dragged anchor may go.
AnchorDrag(newPos) ==
  /\ isTransformEnabled[Held]
  /\ activeAnchor /= Null
  /\ lastArgs' = [newPos |-> newPos,
                  pos |-> anchorDragBoundFunc(newPos, activeAnchor, stage)]
  /\ calls' = <<"anchorDragBoundFunc">>
  /\ dispatched' = <<>>
  /\ lastOp' = Op("anchorDragBoundFunc", Held)
  /\ UNCHANGED <<modeVars, geomVars, stageVars, anchorVars, lifeVars>>

\* ------------------------------------------------------------------------
\* CanvasStateApi: mutation intents
\* ------------------------------------------------------------------------

\* CanvasEntity['type']
EntityTypes == {"layer", "control_adapter", "ip_adapter", "regional_guidance", "inpaint_mask"}

\* Arguments of the intents: the entity id and an opaque payload.
IntentArgs == {[id |-> i, payload |-> p] : i \in {"entity_1", "entity_2"}, p \in {1, 2}}

\* onScaleChanged that also routes layers (a mutant).
onScaleChanged_RoutesLayer(arg, entityType) ==
  IF entityType = "inpaint_mask" THEN <<[type |-> "imScaled", arg |-> arg]>>
  ELSE IF entityType = "regional_guidance" THEN <<[type |-> "rgScaled", arg |-> arg]>>
  ELSE IF entityType = "control_adapter" THEN <<[type |-> "caScaled", arg |-> arg]>>
  ELSE IF entityType = "layer" THEN <<[type |-> "layerScaled", arg |-> arg]>>
  ELSE <<>>

onScaleChanged(arg, entityType) ==
  IF entityType = "inpaint_mask" THEN <<[type |-> "imScaled", arg |-> arg]>>
  ELSE IF entityType = "regional_guidance" THEN <<[type |-> "rgScaled", arg |-> arg]>>
  ELSE IF entityType = "control_adapter" THEN <<[type |-> "caScaled", arg |-> arg]>>
  ELSE <<>>

onBboxChanged(arg, entityType) ==
  IF entityType = "layer" THEN <<[type |-> "layerBboxChanged", arg |-> arg]>>
  ELSE IF entityType = "control_adapter" THEN <<[type |-> "caBboxChanged", arg |-> arg]>>
  ELSE IF entityType = "regional_guidance" THEN <<[type |-> "rgBboxChanged", arg |-> arg]>>
  ELSE IF entityType = "inpaint_mask" THEN <<[type |-> "imBboxChanged", arg |-> arg]>>
  ELSE <<>>

onBrushLineAdded(arg, entityType) ==
  IF entityType = "layer" THEN <<[type |-> "layerBrushLineAdded", arg |-> arg]>>
  ELSE IF entityType = "regional_guidance" THEN <<[type |-> "rgBrushLineAdded", arg |-> arg]>>
  ELSE IF entityType = "inpaint_mask" THEN <<[type |-> "imBrushLineAdded", arg |-> arg]>>
  ELSE <<>>

onEraserLineAdded(arg, entityType) ==
  IF entityType = "layer" THEN <<[type |-> "layerEraserLineAdded", arg |-> arg]>>
  ELSE IF entityType = "regional_guidance" THEN <<[type |-> "rgEraserLineAdded", arg |-> arg]>>
  ELSE IF entityType = "inpaint_mask" THEN <<[type |-> "imEraserLineAdded", arg |-> arg]>>
  ELSE <<>>

onRectShapeAdded(arg, entityType) ==
  IF entityType = "layer" THEN <<[type |-> "layerRectShapeAdded", arg |-> arg]>>
  ELSE IF entityType = "regional_guidance" THEN <<[type |-> "rgRectShapeAdded", arg |-> arg]>>
  ELSE IF entityType = "inpaint_mask" THEN <<[type |-> "imRectShapeAdded", arg |-> arg]>>
  ELSE <<>>

\* A call of one intent of the facade: the store receives what it dispatches.
IntentCall(name, arg, entityType, actions) ==
  /\ dispatched' = actions
  /\ calls' = [i \in 1..Len(actions) |-> "store.dispatch"]
  /\ lastArgs' = [arg |-> arg, entityType |-> entityType]
  /\ lastOp' = Op(name, Null)
  /\ UNCHANGED <<modeVars, geomVars, stageVars, anchorVars, lifeVars>>

OnPosChanged(arg, entityType) ==
  IntentCall("onPosChanged", arg, entityType, onPosChanged(arg, entityType))
OnScaleChanged(arg, entityType) ==
  IntentCall("onScaleChanged", arg, entityType, onScaleChanged(arg, entityType))
OnBboxChanged(arg, entityType) ==
  IntentCall("onBboxChanged", arg, entityType, onBboxChanged(arg, entityType))
OnBrushLineAdded(arg, entityType) ==
  IntentCall("onBrushLineAdded", arg, entityType, onBrushLineAdded(arg, entityType))
OnEraserLineAdded(arg, entityType) ==
  IntentCall("onEraserLineAdded", arg, entityType, onEraserLineAdded(arg, entityType))
OnRectShapeAdded(arg, entityType) ==
  IntentCall("onRectShapeAdded", arg, entityType, onRectShapeAdded(arg, entityType))

\* ------------------------------------------------------------------------
\* CanvasStateApi: the selected entity, over every entity type
\* ------------------------------------------------------------------------

\* Entity ids a store may hold or an identifier may name.
SelectionIds == {"entity_1", "entity_2", "inpaint_mask"}

\* "No entity": what a null result is written as among entity records.
NullEntity == [id |-> Null, type |-> Null]

\* state.inpaintMask: the one inpaint mask of the canvas.
InpaintMask == [id |-> "inpaint_mask", type |-> "inpaint_mask"]

\* state.selectedEntityIdentifier: null (present = FALSE) or a type and an id.
Identifiers ==
  {[present |-> FALSE, type |-> Null, id |-> Null]}
    \cup {[present |-> TRUE, type |-> ty, id |-> i] : ty \in EntityTypes, i \in SelectionIds}

\* Canvas states: the identifier and, per collection, the ids of its entities.
CanvasStates ==
  {[selectedEntityIdentifier |-> i, layers |-> l, controlAdapters |-> c,
    ipAdapters |-> p, regions |-> r, inpaintMask |-> InpaintMask] :
     i \in Identifiers, l \in SUBSET {"entity_1", "entity_2"}, c \in {{}, {"entity_2"}},
     p \in {{}, {"entity_1"}}, r \in {{}, {"entity_1"}}}

\* entities.find((i) => i.id === id) ?? null
findEntity(ids, type, id) ==
  IF id \in ids THEN [id |-> id, type |-> type] ELSE NullEntity

\* getSelectedEntity over a whole canvas state.
getSelectedEntityIn(state) ==
  LET identifier == state.selectedEntityIdentifier IN
  IF ~identifier.present THEN NullEntity
  ELSE IF identifier.type = "layer"
    THEN findEntity(state.layers, "layer", identifier.id)
  ELSE IF identifier.type = "control_adapter"
    THEN findEntity(state.controlAdapters, "control_adapter", identifier.id)
  ELSE IF identifier.type = "ip_adapter"
    THEN findEntity(state.ipAdapters, "ip_adapter", identifier.id)
  ELSE IF identifier.type = "regional_guidance"
    THEN findEntity(state.regions, "regional_guidance", identifier.id)
  ELSE IF identifier.type = "inpaint_mask"
    THEN state.inpaintMask
  ELSE NullEntity

\* getIsSelected(id) over a whole canvas state.
getIsSelectedIn(state, id) ==
  getSelectedEntityIn(state).id = id

\* The store holds state; getSelectedEntity and getIsSelected are asked.
GetSelectedEntity(state) ==
  /\ lastArgs' = [state |-> state,
                  entity |-> getSelectedEntityIn(state),
                  isSelected |-> [id \in SelectionIds |-> getIsSelectedIn(state, id)]]
  /\ calls' = <<"getState">>
  /\ dispatched' = <<>>
  /\ lastOp' = Op("getSelectedEntity", Null)
  /\ UNCHANGED <<modeVars, geomVars, stageVars, anchorVars, lifeVars>>

\* ------------------------------------------------------------------------
\* Initial states
\* ------------------------------------------------------------------------

\* The adapters a fresh canvas is given here: one entity per collection, the
\* control layer disabled.
DefaultAdapters ==
  [a \in AdapterIds |->
     [isEnabled |-> a /= "control_layer_1",
      rect |-> IF a = "raster_layer_1" THEN RectOf(-30, 40, 60, 200)
               ELSE RectOf(0, 0, 100, 50)]]

\* The stage module after initialize() has fitted the stage to a container
\* of the given size, the transform control idle and subscribed, the shift
\* key as given.
InitEnvWith(size, ads, bbox, shift) ==
  /\ container = size
  /\ stage = InitStageOf(size)
  /\ stageAttrs = PublishedOf(InitStageOf(size))
  /\ adapters = ads
  /\ genBbox = bbox
  /\ zooms = 0
  /\ shiftKey = shift
  /\ rotationSnaps = <<>>
  /\ activeAnchor = Null
  /\ boundBox = BoxOf(100, 0)
  /\ subscriptions = [t \in Entities |-> SubscriptionNames]
  /\ cleanups = [t \in Entities |-> [s \in SubscriptionNames |-> 0]]
  /\ destroyCalls = [t \in Entities |-> 0]
  /\ lastArgs = [none |-> TRUE]

\* The same with the shift key up.
InitEnvOf(size, ads, bbox) == InitEnvWith(size, ads, bbox, FALSE)

InitEnv ==
  InitEnvOf([width |-> 540, height |-> 340], DefaultAdapters, RectOf(0, 0, 512, 512))

\* Konva defaults of freshly constructed nodes.
InitWidgets ==
  [proxyVisible |-> TRUE, proxyListening |-> FALSE,
   transformerVisible |-> FALSE, transformerListening |-> FALSE,
   transformerNodes |-> Null, outlineVisible |-> TRUE]

InitGeom ==
  /\ stageScale = Px(1)
  /\ proxyRect = [x |-> 0, y |-> 0, width |-> 0, height |-> 0,
                  scaleX |-> Rat(1, 1), scaleY |-> Rat(1, 1), rotation |-> 0]
  /\ bboxOutline = [x |-> 0, y |-> 0, width |-> FromFp(0), height |-> FromFp(0),
                    strokeWidth |-> Px(1)]
  /\ objectGroup = [x |-> 0, y |-> 0, scaleX |-> Rat(1, 1), scaleY |-> Rat(1, 1),
                    rotation |-> 0]
  /\ parentBbox = [x |-> 0, y |-> 0, width |-> 0, height |-> 0]
  /\ dragging = FALSE
  /\ dragOrigin = [x |-> 0, y |-> 0]
  /\ pointerDelta = [x |-> 0, y |-> 0]

\* After construction of the transformers.
Init ==
  /\ selectedEntityIdentifier \in Entities \cup {Null}
  /\ toolSelected \in Tools
  /\ hasObjects \in [Entities -> BOOLEAN]
  /\ isTransforming = [t \in Entities |-> FALSE]
  /\ interactionMode = [t \in Entities |-> "off"]
  /\ isDragEnabled = [t \in Entities |-> FALSE]
  /\ isTransformEnabled = [t \in Entities |-> FALSE]
  /\ widgets = [t \in Entities |-> InitWidgets]
  /\ layerListening \in [Entities -> BOOLEAN]
  /\ rasterizing = [t \in Entities |-> 0]
  /\ calls = <<>>
  /\ dispatched = <<>>
  /\ lastOp = Op("construct", Null)
  /\ InitGeom
  /\ InitEnv

\* ------------------------------------------------------------------------
\* Specification of the interaction-mode machine
\* ------------------------------------------------------------------------

Next ==
  \/ \E t \in Entities : StartTransform(t)
  \/ \E t \in Entities : ApplyTransform(t)
  \/ \E t \in Entities : RasterizeDone(t)
  \/ \E t \in Entities : StopTransform(t)
  \/ \E t \in Entities : SyncInteractionState(t)
  \/ \E t \in Entities : SetHasObjects(t)
  \/ \E id \in Entities \cup {Null, GhostId} : SelectEntity(id)
  \/ \E tool \in Tools : SetTool(tool)

Spec == Init /\ [][Next]_vars

\* ------------------------------------------------------------------------
\* Specification of the pointer interactions on the held transformer
\* ------------------------------------------------------------------------

\* The held entity has content, is selected with the move tool and synced;
\* its parent has called update once.
InitHeld(pending, op) ==
  /\ selectedEntityIdentifier = Held
  /\ toolSelected = "move"
  /\ hasObjects = [t \in Entities |-> TRUE]
  /\ isTransforming = [t \in Entities |-> FALSE]
  /\ interactionMode = [t \in Entities |->
       SyncOutcome(TRUE, getIsSelected(Held, t), FALSE, "move").mode]
  /\ layerListening = [t \in Entities |->
       SyncOutcome(TRUE, getIsSelected(Held, t), FALSE, "move").listening]
  /\ isDragEnabled = [t \in Entities |-> setInteractionMode(interactionMode[t]).isDragEnabled]
  /\ isTransformEnabled =
       [t \in Entities |-> setInteractionMode(interactionMode[t]).isTransformEnabled]
  /\ widgets = [t \in Entities |-> setInteractionMode(interactionMode[t]).widgets]
  /\ rasterizing = [t \in Entities |-> IF t = Held THEN pending ELSE 0]
  /\ calls = IF op = "update" THEN <<"update">>
             ELSE <<"setInteractionMode(off)", "parent.resetScale", "parent.updatePosition",
                    "parent.updateBbox", "syncInteractionState">>
  /\ dispatched = <<>>
  /\ lastOp = Op(op, Held)
  /\ stageScale \in StageScales
  /\ objectGroup = [x |-> 0, y |-> 0, scaleX |-> Rat(1, 1), scaleY |-> Rat(1, 1),
                    rotation |-> 0]
  /\ dragging = FALSE
  /\ dragOrigin = Coord(0, 0)
  /\ pointerDelta = Coord(0, 0)
  /\ InitEnv
  /\ \E position \in Positions, bbox \in Bboxes :
       LET fresh == update(position, bbox, stageScale,
                           [x |-> 0, y |-> 0, width |-> 0, height |-> 0,
                            scaleX |-> Rat(1, 1), scaleY |-> Rat(1, 1), rotation |-> 0],
                           [x |-> 0, y |-> 0, width |-> FromFp(0), height |-> FromFp(0),
                            strokeWidth |-> Px(1)])
       IN /\ parentBbox = bbox
          /\ proxyRect = fresh.proxyRect
          /\ bboxOutline = fresh.bboxOutline

\* The held transformer after its parent's first update, nothing pending.
InitPointer == InitHeld(0, "update")

NextPointer ==
  \/ \E position \in Positions, bbox \in Bboxes : ParentUpdateBbox(position, bbox)
  \/ \E scale \in StageScales : SetStageScale(scale)
  \/ \E delta \in PointerDeltas : DragMove(delta)
  \/ DragEnd
  \/ \E attrs \in TransformAttrs : Transform(attrs)
  \/ TransformEnd
  \/ StartTransform(Held)
  \/ StopTransform(Held)

SpecPointer == InitPointer /\ [][NextPointer]_vars

\* ------------------------------------------------------------------------
\* Specification of resizing with the transform control
\* ------------------------------------------------------------------------

\* Bounding boxes of content that has collapsed along one axis.
DegenerateBboxes == {RectOf(0, 0, 0, Px(50)), RectOf(0, 0, Px(100), 0)}

NextResize ==
  \/ \E position \in Positions, bbox \in Bboxes \cup DegenerateBboxes :
       ParentUpdateBbox(position, bbox)
  \/ \E attrs \in TransformAttrs : Transform(attrs)
  \/ TransformEnd
  \/ StartTransform(Held)
  \/ StopTransform(Held)

SpecResize == InitPointer /\ [][NextResize]_vars

\* ------------------------------------------------------------------------
\* Specification of the transform control's anchors
\* ------------------------------------------------------------------------

NextAnchor ==
  \/ \E down \in BOOLEAN : SetShiftKey(down)
  \/ \E anchor \in Anchors : GrabAnchor(anchor)
  \/ \E newBoundBox \in CandidateBoxes : BoundBox(newBoundBox)
  \/ StartTransform(Held)

SpecAnchor == InitPointer /\ [][NextAnchor]_vars

\* ------------------------------------------------------------------------
\* Specifications of the stage module and of the facade
\* ------------------------------------------------------------------------

\* A canvas nobody interacts with: transformers as constructed, nothing
\* selected.
InitQuiet ==
  /\ selectedEntityIdentifier = Null
  /\ toolSelected = "move"
  /\ hasObjects = [t \in Entities |-> FALSE]
  /\ isTransforming = [t \in Entities |-> FALSE]
  /\ interactionMode = [t \in Entities |-> "off"]
  /\ isDragEnabled = [t \in Entities |-> FALSE]
  /\ isTransformEnabled = [t \in Entities |-> FALSE]
  /\ widgets = [t \in Entities |-> InitWidgets]
  /\ layerListening = [t \in Entities |-> TRUE]
  /\ rasterizing = [t \in Entities |-> 0]
  /\ calls = <<>>
  /\ dispatched = <<>>
  /\ lastOp = Op("construct", Null)
  /\ InitGeom

InitStage ==
  /\ InitQuiet
  /\ \E size \in ContainerSizes, bbox \in GenBboxes : InitEnvOf(size, DefaultAdapters, bbox)

NextStage ==
  \/ \E size \in ContainerSizes : FitStageToContainer(size)
  \/ \E rect \in StageRects : FitRect(rect)
  \/ FitBboxToStage
  \/ FitLayersToStage
  \/ \E scale \in ScaleRequests, center \in Centers : SetScale(scale, center)

SpecStage == InitStage /\ [][NextStage]_vars

\* The entities come and go under a laid-out stage.
InitLayers ==
  /\ InitQuiet
  /\ \E bbox \in GenBboxes :
       InitEnvOf([width |-> 540, height |-> 340], DefaultAdapters, bbox)

NextLayers ==
  \/ \E a \in AdapterIds, isEnabled \in BOOLEAN, rect \in EntityRects :
       SetAdapter(a, isEnabled, rect)
  \/ FitLayersToStage

SpecLayers == InitLayers /\ [][NextLayers]_vars

InitFacade == InitQuiet /\ InitEnv

NextFacade ==
  \/ \E arg \in IntentArgs, entityType \in EntityTypes : OnPosChanged(arg, entityType)
  \/ \E arg \in IntentArgs, entityType \in EntityTypes : OnScaleChanged(arg, entityType)
  \/ \E arg \in IntentArgs, entityType \in EntityTypes : OnBboxChanged(arg, entityType)
  \/ \E arg \in IntentArgs, entityType \in EntityTypes : OnBrushLineAdded(arg, entityType)
  \/ \E arg \in IntentArgs, entityType \in EntityTypes : OnEraserLineAdded(arg, entityType)
  \/ \E arg \in IntentArgs, entityType \in EntityTypes : OnRectShapeAdded(arg, entityType)

SpecFacade == InitFacade /\ [][NextFacade]_vars

\* The store is read in every canvas state.
NextSelection ==
  \E state \in CanvasStates : GetSelectedEntity(state)

SpecSelection == InitFacade /\ [][NextSelection]_vars

\* The life of the transformers: constructed with the shift key up or down,
\* they hear the atoms change until they are destroyed.
InitLife ==
  /\ selectedEntityIdentifier = Held
  /\ toolSelected = "move"
  /\ hasObjects = [t \in Entities |-> TRUE]
  /\ isTransforming = [t \in Entities |-> FALSE]
  /\ interactionMode = [t \in Entities |-> "off"]
  /\ isDragEnabled = [t \in Entities |-> FALSE]
  /\ isTransformEnabled = [t \in Entities |-> FALSE]
  /\ widgets = [t \in Entities |-> InitWidgets]
  /\ layerListening = [t \in Entities |-> TRUE]
  /\ rasterizing = [t \in Entities |-> 0]
  /\ calls = <<>>
  /\ dispatched = <<>>
  /\ lastOp = Op("construct", Null)
  /\ InitGeom
  /\ \E shift \in BOOLEAN :
       InitEnvWith([width |-> 540, height |-> 340], DefaultAdapters,
                   RectOf(0, 0, 512, 512), shift)

NextLife ==
  \/ StartTransform(Held)
  \/ StopTransform(Held)
  \/ \E id \in {Held, Null} : SelectEntity(id)
  \/ \E tool \in Tools : SetTool(tool)
  \/ \E down \in BOOLEAN : SetShiftKey(down)
  \/ \E scale \in StageScales : SetStageScale(scale)
  \/ \E t \in Entities : Destroy(t)

SpecLife == InitLife /\ [][NextLife]_vars

\* An anchor is dragged while the stage is fitted and zoomed.
NextAnchorDrag ==
  \/ StartTransform(Held)
  \/ \E anchor \in Anchors : GrabAnchor(anchor)
  \/ \E newPos \in AnchorPositions : AnchorDrag(newPos)
  \/ \E rect \in {RectOf(0, 0, 1000, 1000), RectOf(-50, 20, 100, 50)} : FitRect(rect)
  \/ \E scale \in ScaleRequests, center \in Centers : SetScale(scale, center)

SpecAnchorDrag == InitStage /\ [][NextAnchorDrag]_vars

\* A transform session was started on the held transformer, applyTransform
\* was called and, while the parent still rasterizes, stopTransform was called
\* from outside: the session has ended, its rasterize is pending. No further
\* applyTransform is called, so the pending rasterize is always that one.
InitSession == InitHeld(1, "stopTransform")

NextSession ==
  \/ StartTransform(Held)
  \/ StopTransform(Held)
  \/ RasterizeDone(Held)
  \/ \E delta \in PointerDeltas : DragMove(delta)
  \/ DragEnd
  \/ \E tool \in Tools : SetTool(tool)

SpecSession == InitSession /\ [][NextSession]_vars

\* ------------------------------------------------------------------------
\* Properties
\* ------------------------------------------------------------------------

\* The transformers whose syncInteractionState ran last in the last operation.
Synced ==
  IF lastOp.op \in {"selectEntity", "setTool"} THEN Entities
  ELSE IF lastOp.op \in {"syncInteractionState", "stopTransform", "rasterizeDone"}
    THEN {lastOp.t}
  ELSE {}

\* C1: immediately after syncInteractionState the mode is determined by
\* (hasContent, isSelected, tool, isTransforming): no content gives off;
\* content, selected, move tool and not transforming gives drag; content,
\* selected, transforming and a tool other than view gives all; every other
\* combination gives off.
C1_SyncIsFunctionOfInputs ==
  \A t \in Synced :
    LET content == hasObjects[t]
        selected == getIsSelected(selectedEntityIdentifier, t)
        dragCase == content /\ selected /\ toolSelected = "move" /\ ~isTransforming[t]
        allCase == content /\ selected /\ isTransforming[t] /\ toolSelected /= "view"
    IN /\ ~content => interactionMode[t] = "off"
       /\ dragCase => interactionMode[t] = "drag"
       /\ allCase => interactionMode[t] = "all"
       /\ (~dragCase /\ ~allCase) => interactionMode[t] = "off"

\* C1 witness: a sync has put a transforming, selected transformer in all mode.
C1_Witness ==
  /\ lastOp.op = "syncInteractionState"
  /\ interactionMode[lastOp.t] = "all"
  /\ isTransforming[lastOp.t]

\* C2: in every reachable state at most one transformer is in all mode.
C2_AtMostOneAll ==
  Cardinality({t \in Entities : interactionMode[t] = "all"}) <= 1

\* C3: startTransform sets isTransforming and enters all mode unless the
\* view tool is selected; with the view tool selected it does not enter all.
C3_StartTransformRespectsView ==
  lastOp.op = "startTransform" =>
    /\ isTransforming[lastOp.t]
    /\ toolSelected /= "view" => interactionMode[lastOp.t] = "all"
    /\ toolSelected = "view" => interactionMode[lastOp.t] /= "all"

\* C4: when stopTransform returns, isTransforming is false, the mode is not
\* all, the mode was forced off and the parent's resetScale, updatePosition
\* and updateBbox were invoked before the resync, and the final mode is drag
\* exactly when the entity has content, is selected and the tool is move,
\* and off otherwise.
C4_StopTransformOutcome ==
  lastOp.op \in {"stopTransform", "rasterizeDone"} =>
    LET t == lastOp.t IN
      /\ ~isTransforming[t]
      /\ interactionMode[t] /= "all"
      /\ calls = <<"setInteractionMode(off)", "parent.resetScale",
                   "parent.updatePosition", "parent.updateBbox", "syncInteractionState">>
      /\ interactionMode[t] =
           IF hasObjects[t] /\ getIsSelected(selectedEntityIdentifier, t)
              /\ toolSelected = "move"
           THEN "drag" ELSE "off"

\* C4 witness: stopTransform has returned a selected entity to drag mode.
C4_Witness ==
  /\ lastOp.op = "stopTransform"
  /\ interactionMode[lastOp.t] = "drag"
  /\ ~isTransforming[lastOp.t]

\* C5: applyTransform starts the parent's rasterize and changes neither
\* isTransforming nor interactionMode while it is pending; stopTransform runs
\* when rasterize completes, leaving isTransforming false.
C5_ApplyAwaitsRasterize ==
  [][\A t \in Entities :
       /\ lastOp' = Op("applyTransform", t) =>
            /\ isTransforming' = isTransforming
            /\ interactionMode' = interactionMode
            /\ rasterizing'[t] > 0
            /\ calls' = <<"parent.rasterize">>
       /\ lastOp' = Op("rasterizeDone", t) =>
            /\ rasterizing[t] > 0
            /\ ~isTransforming'[t]]_vars

\* C5 witness: rasterize is pending and the transformer is still transforming
\* in all mode.
C5_Witness ==
  /\ lastOp.op = "applyTransform"
  /\ rasterizing[lastOp.t] > 0
  /\ isTransforming[lastOp.t]
  /\ interactionMode[lastOp.t] = "all"

\* C6: on dragend, nothing is dispatched while transforming; otherwise
\* exactly one position-changed action is dispatched, carrying the parent's
\* id and the proxy position minus the parent's bbox origin.
C6_DragEndCommit ==
  lastOp.op = "dragend" =>
    IF isTransforming[Held] THEN dispatched = <<>>
    ELSE /\ Len(dispatched) = 1
         /\ dispatched[1] =
              [type |-> "layerTranslated",
               arg |-> [id |-> Held,
                        position |-> Coord(proxyRect.x - parentBbox.x,
                                           proxyRect.y - parentBbox.y)]]

\* C6 witness: a dragend outside a transform has committed one position.
C6_Witness ==
  /\ lastOp.op = "dragend"
  /\ ~isTransforming[Held]
  /\ Len(dispatched) = 1

\* C7: dragmove and transform events dispatch nothing; the dragend or
\* transformend that ends the interaction dispatches at most once.
C7_DispatchOnlyAtBoundary ==
  /\ lastOp.op \in {"dragmove", "transform"} => dispatched = <<>>
  /\ lastOp.op \in {"dragend", "transformend"} => Len(dispatched) <= 1

\* C7 witness: a dragmove has moved the proxy away from where the drag
\* started and nothing was dispatched.
C7_Witness ==
  /\ lastOp.op = "dragmove"
  /\ dragging
  /\ Coord(proxyRect.x, proxyRect.y) /= dragOrigin
  /\ dispatched = <<>>

\* A dragend that directly follows a dragmove, outside a transform.
DragSequenceEnds ==
  /\ lastOp.op = "dragmove"
  /\ lastOp'.op = "dragend"
  /\ ~isTransforming[Held]

\* C8 as stated: after dragmoves followed by dragend the proxy's x and y are
\* integers and the committed position has integer coordinates.
C8_CommittedPositionIsInteger ==
  [][DragSequenceEnds =>
       /\ IsInt(proxyRect'.x) /\ IsInt(proxyRect'.y)
       /\ Len(dispatched') = 1
       /\ IsInt(dispatched'[1].arg.position.x)
       /\ IsInt(dispatched'[1].arg.position.y)]_vars

\* C8 amended: after dragmoves followed by dragend the proxy's x and y are
\* integers; the committed position is the proxy position minus the parent's
\* bbox origin, so each coordinate is an integer exactly when that
\* coordinate of the bbox origin is.
C8_ProxyIsIntegerCommitFollowsBbox ==
  [][DragSequenceEnds =>
       /\ IsInt(proxyRect'.x) /\ IsInt(proxyRect'.y)
       /\ Len(dispatched') = 1
       /\ dispatched'[1].arg.position =
            Coord(proxyRect'.x - parentBbox'.x, proxyRect'.y - parentBbox'.y)
       /\ IsInt(dispatched'[1].arg.position.x) <=> IsInt(parentBbox'.x)
       /\ IsInt(dispatched'[1].arg.position.y) <=> IsInt(parentBbox'.y)]_vars

\* C8 witness: a drag of an entity whose bbox origin is fractional has been
\* committed from an integer proxy position.
C8_Witness ==
  /\ lastOp.op = "dragend"
  /\ Len(dispatched) = 1
  /\ IsInt(proxyRect.x) /\ IsInt(proxyRect.y)
  /\ ~IsInt(parentBbox.x)
  /\ ~IsInt(dispatched[1].arg.position.x)

\* The example drag: the proxy started at (10,10), the bbox is
\* {0, 0, 100, 50}, the pointer moved (33.4, -5.6) screen pixels at stage
\* scale 2, and the drag ends outside a transform.
ExampleDragEnds ==
  /\ DragSequenceEnds
  /\ dragOrigin = Coord(Px(10), Px(10))
  /\ parentBbox = RectOf(0, 0, Px(100), Px(50))
  /\ pointerDelta = Coord(Frac(33, 400), -Frac(5, 600))
  /\ stageScale = Px(2)

\* C9 as stated: the example drag commits the value (17, -3).
C9_ExampleCommitsDelta ==
  [][ExampleDragEnds =>
       /\ Len(dispatched') = 1
       /\ dispatched'[1].arg.position = Coord(Px(17), Px(-3))]_vars

\* C9 amended: the example drag commits the value (27, 7), the entity's new
\* position: its old position (10,10) plus the rounded displacement (17,-3).
C9_ExampleCommitsPosition ==
  [][ExampleDragEnds =>
       /\ Len(dispatched') = 1
       /\ dispatched'[1].arg.id = Held
       /\ dispatched'[1].arg.position = Coord(Px(27), Px(7))
       /\ dispatched'[1].arg.position.x - dragOrigin.x = Px(17)
       /\ dispatched'[1].arg.position.y - dragOrigin.y = Px(-3)]_vars

\* C9 witness: the example drag has been committed.
C9_Witness ==
  /\ lastOp.op = "dragend"
  /\ parentBbox = RectOf(0, 0, Px(100), Px(50))
  /\ Len(dispatched) = 1
  /\ dispatched[1].arg.position = Coord(Px(27), Px(7))

\* The size |scale * size| of one axis of the proxy, in pixels.
ScaledSize(size, scale) == RAbs(RMul(FromFp(size), scale))

\* One axis after transformend: the new size is an integer >= 1, it is the
\* rounded old size clamped to 1, and the scale keeps its sign.
AxisSnapped(size, oldScale, newScale) ==
  /\ IsFinite(ScaledSize(size, newScale))
  /\ ScaledSize(size, newScale).den = 1
  /\ ScaledSize(size, newScale).num >= 1
  /\ ScaledSize(size, newScale) = RMax1(RAbs(RRound(RMul(FromFp(size), oldScale))))
  /\ Sign(newScale.num) = Sign(oldScale.num)

\* C10: after transformend, for every proxy width and height >= 1 and every
\* scale factor, positive, negative or zero, the new scale times the
\* unscaled size is an integer >= 1 in absolute value, equal to the target
\* size, and each new scale factor has the sign of the old one.
C10_TransformEndSnapsSize ==
  [][(/\ lastOp'.op = "transformend"
      /\ proxyRect.width >= Px(1)
      /\ proxyRect.height >= Px(1)) =>
       /\ AxisSnapped(proxyRect.width, proxyRect.scaleX, proxyRect'.scaleX)
       /\ AxisSnapped(proxyRect.height, proxyRect.scaleY, proxyRect'.scaleY)]_vars

\* C11: whenever transformend fires, the divisors of its scale recovery, the
\* width and the height of the proxy rectangle, are not 0.
C11_DivisorNeverZero ==
  [][TransformEnd => proxyRect.width /= 0 /\ proxyRect.height /= 0]_vars

\* C12: boundBoxFunc returns the old box exactly when the rotater anchor is
\* active, shift is held and the candidate's rotation is not an exact
\* multiple of 45 degrees; in every other case it returns the candidate.
C12_BoundBoxFunc ==
  lastOp.op = "boundBoxFunc" =>
    LET old == lastArgs.oldBoundBox
        new == lastArgs.newBoundBox
        onGrid == \E k \in -8..8 : new.rotation = k * Px(45)
    IN boundBox = IF activeAnchor = "rotater" /\ shiftKey /\ ~onGrid THEN old ELSE new

\* A candidate off the 45-degree grid was rejected under shift, the old box
\* differing from it.
C12_Witness ==
  /\ lastOp.op = "boundBoxFunc"
  /\ activeAnchor = "rotater"
  /\ shiftKey
  /\ boundBox = lastArgs.oldBoundBox
  /\ boundBox /= lastArgs.newBoundBox
  /\ boundBox.rotation = Px(90)

\* A scale within [0.1, 20].
WithinScaleBounds(scale) == RLe(Rat(1, 10), scale) /\ RLe(scale, Rat(20, 1))

\* C13: after every setScale call the stage scale, the same on both axes, is
\* within [0.1, 20] and is a whole number of hundredths.
C13_SetScaleClampsAndRounds ==
  lastOp.op = "setScale" =>
    /\ WithinScaleBounds(stage.scaleX)
    /\ IsFinite(stage.scaleX)
    /\ (stage.scaleX.num * 100) % stage.scaleX.den = 0
    /\ stage.scaleY = stage.scaleX

\* setScale was asked for 1.236 and left the scale 1.24.
C13_Witness ==
  /\ lastOp.op = "setScale"
  /\ lastArgs.scale = Rat(1236, 1000)
  /\ stage.scaleX = Rat(124, 100)

\* C14: a setScale call keeps its center in place: the logical point under
\* the center before the call is mapped to the center by the offset and scale
\* after it; and a call without a center works with the centre of the screen.
C14_SetScaleKeepsCenter ==
  [][lastOp'.op = "setScale" =>
       LET c == lastArgs'.center
           logical == [x |-> RQuot(RSub(c.x, stage.x), stage.scaleX),
                       y |-> RQuot(RSub(c.y, stage.y), stage.scaleX)]
           mapped == [x |-> RAdd(RMul(logical.x, stage'.scaleX), stage'.x),
                      y |-> RAdd(RMul(logical.y, stage'.scaleX), stage'.y)]
       IN /\ IsFinite(mapped.x) /\ IsFinite(mapped.y)
          /\ mapped = c
          /\ ~lastArgs'.given => c = [x |-> Rat(stage.width, 2), y |-> Rat(stage.height, 2)]
    ]_vars

\* C15: the scale of the viewport, live and published, is within [0.1, 20].
C15_ScaleAlwaysWithinBounds ==
  /\ WithinScaleBounds(stage.scaleX)
  /\ WithinScaleBounds(stageAttrs.scale)

\* The last operation was fitRect or one of its two callers.
AfterFit ==
  \/ lastOp.op = "fitRect"
  \/ lastOp.op = "fitBboxToStage"
  \/ lastOp.op = "fitLayersToStage"

\* C16: fitRect leaves the scale min(availableWidth / rect.width,
\* availableHeight / rect.height, 1), the available size being the container
\* size less 40; the scale is not above 1; live stage and published
\* attributes carry the same offset and scale.
C16_FitRectScale ==
  AfterFit =>
    LET rect == lastArgs.rect
        byWidth == RQuot(Rat(container.width - 40, 1), Rat(rect.width, 1))
        byHeight == RQuot(Rat(container.height - 40, 1), Rat(rect.height, 1))
    IN /\ stage.scaleX = RMin(RMin(byWidth, byHeight), Rat(1, 1))
       /\ stage.scaleY = stage.scaleX
       /\ ~RLt(Rat(1, 1), stage.scaleX)
       /\ stageAttrs.scale = stage.scaleX
       /\ stageAttrs.x = stage.x
       /\ stageAttrs.y = stage.y

\* A 1000 x 1000 rect was fitted into a 540 x 340 container at scale 0.3.
C16_Witness ==
  /\ lastOp.op = "fitRect"
  /\ lastArgs.rect = RectOf(0, 0, 1000, 1000)
  /\ container = [width |-> 540, height |-> 340]
  /\ stage.scaleX = Rat(3, 10)
  /\ stageAttrs.scale = Rat(3, 10)

\* The screen margins of the fitted rect under the live offset and scale.
MarginsOf(rect) ==
  LET left == RAdd(RMul(Rat(rect.x, 1), stage.scaleX), stage.x)
      top == RAdd(RMul(Rat(rect.y, 1), stage.scaleY), stage.y)
      right == RAdd(left, RMul(Rat(rect.width, 1), stage.scaleX))
      bottom == RAdd(top, RMul(Rat(rect.height, 1), stage.scaleY))
  IN [left |-> left, top |-> top,
      right |-> RSub(Rat(container.width, 1), right),
      bottom |-> RSub(Rat(container.height, 1), bottom)]

\* C17: after fitRect the rect is centred in the container, and when the
\* container is larger than the padding each margin is at least 20 pixels.
C17_FitRectCentres ==
  AfterFit =>
    LET m == MarginsOf(lastArgs.rect)
    IN /\ IsFinite(m.left) /\ IsFinite(m.top)
       /\ m.left = m.right
       /\ m.top = m.bottom
       /\ container.width > 40 /\ container.height > 40 =>
            /\ RLe(Rat(20, 1), m.left)
            /\ RLe(Rat(20, 1), m.right)
            /\ RLe(Rat(20, 1), m.top)
            /\ RLe(Rat(20, 1), m.bottom)

\* C18: a fit into a container not larger than the padding leaves the scale
\* within [0.1, 20], and a fit of a zero-size rect leaves the scale 1.
C18_DegenerateFit ==
  AfterFit =>
    /\ container.width <= 40 \/ container.height <= 40 =>
         WithinScaleBounds(stage.scaleX) /\ WithinScaleBounds(stageAttrs.scale)
    /\ lastArgs.rect.width = 0 /\ lastArgs.rect.height = 0 => stage.scaleX = Rat(1, 1)

\* The enabled adapters, and the smallest rect containing their rects.
EnabledAdapters == {a \in AdapterIds : adapters[a].isEnabled}
EnabledUnion ==
  LET left == CHOOSE v \in {adapters[a].rect.x : a \in EnabledAdapters} :
                \A a \in EnabledAdapters : v <= adapters[a].rect.x
      top == CHOOSE v \in {adapters[a].rect.y : a \in EnabledAdapters} :
               \A a \in EnabledAdapters : v <= adapters[a].rect.y
      right == CHOOSE v \in {adapters[a].rect.x + adapters[a].rect.width : a \in EnabledAdapters} :
                 \A a \in EnabledAdapters : v >= adapters[a].rect.x + adapters[a].rect.width
      bottom == CHOOSE v \in {adapters[a].rect.y + adapters[a].rect.height : a \in EnabledAdapters} :
                  \A a \in EnabledAdapters : v >= adapters[a].rect.y + adapters[a].rect.height
  IN RectOf(left, top, right - left, bottom - top)

\* C19: fitLayersToStage fits the union of the rects of the enabled adapters
\* of the four collections, or the generation bbox when no adapter is enabled
\* or that union has no width or no height.
C19_FitsEnabledUnion ==
  lastOp.op = "fitLayersToStage" =>
    lastArgs.rect =
      IF EnabledAdapters = {} THEN genBbox
      ELSE IF EnabledUnion.width = 0 \/ EnabledUnion.height = 0 THEN genBbox
      ELSE EnabledUnion

\* Two enabled adapters were united while a disabled one, lying outside
\* their union, stayed out of the fitted rect.
C19_Witness ==
  /\ lastOp.op = "fitLayersToStage"
  /\ adapters["inpaint_mask_1"] = [isEnabled |-> TRUE, rect |-> RectOf(0, 0, 100, 50)]
  /\ adapters["regional_guidance_1"] = [isEnabled |-> TRUE, rect |-> RectOf(7, 7, 0, 0)]
  /\ adapters["raster_layer_1"] = [isEnabled |-> FALSE, rect |-> RectOf(-30, 40, 60, 200)]
  /\ adapters["control_layer_1"].isEnabled = FALSE
  /\ lastArgs.rect = RectOf(0, 0, 100, 50)

\* The store action an intent is routed to for an entity type; Null for none.
RouteOf(intent, entityType) ==
  CASE intent = "onPosChanged" /\ entityType = "layer" -> "layerTranslated"
    [] intent = "onPosChanged" /\ entityType = "regional_guidance" -> "rgTranslated"
    [] intent = "onPosChanged" /\ entityType = "inpaint_mask" -> "imTranslated"
    [] intent = "onPosChanged" /\ entityType = "control_adapter" -> "caTranslated"
    [] intent = "onScaleChanged" /\ entityType = "inpaint_mask" -> "imScaled"
    [] intent = "onScaleChanged" /\ entityType = "regional_guidance" -> "rgScaled"
    [] intent = "onScaleChanged" /\ entityType = "control_adapter" -> "caScaled"
    [] intent = "onBboxChanged" /\ entityType = "layer" -> "layerBboxChanged"
    [] intent = "onBboxChanged" /\ entityType = "control_adapter" -> "caBboxChanged"
    [] intent = "onBboxChanged" /\ entityType = "regional_guidance" -> "rgBboxChanged"
    [] intent = "onBboxChanged" /\ entityType = "inpaint_mask" -> "imBboxChanged"
    [] intent = "onBrushLineAdded" /\ entityType = "layer" -> "layerBrushLineAdded"
    [] intent = "onBrushLineAdded" /\ entityType = "regional_guidance" -> "rgBrushLineAdded"
    [] intent = "onBrushLineAdded" /\ entityType = "inpaint_mask" -> "imBrushLineAdded"
    [] intent = "onEraserLineAdded" /\ entityType = "layer" -> "layerEraserLineAdded"
    [] intent = "onEraserLineAdded" /\ entityType = "regional_guidance" -> "rgEraserLineAdded"
    [] intent = "onEraserLineAdded" /\ entityType = "inpaint_mask" -> "imEraserLineAdded"
    [] intent = "onRectShapeAdded" /\ entityType = "layer" -> "layerRectShapeAdded"
    [] intent = "onRectShapeAdded" /\ entityType = "regional_guidance" -> "rgRectShapeAdded"
    [] intent = "onRectShapeAdded" /\ entityType = "inpaint_mask" -> "imRectShapeAdded"
    [] OTHER -> Null

\* The last operation was one of the six intents.
AfterIntent ==
  \/ lastOp.op = "onPosChanged"
  \/ lastOp.op = "onScaleChanged"
  \/ lastOp.op = "onBboxChanged"
  \/ lastOp.op = "onBrushLineAdded"
  \/ lastOp.op = "onEraserLineAdded"
  \/ lastOp.op = "onRectShapeAdded"

\* C20: an intent dispatches the one store action its entity type is routed
\* to, carrying the intent's argument, and nothing for an entity type it has
\* no route for.
C20_IntentRouting ==
  AfterIntent =>
    /\ Len(dispatched) <= 1
    /\ dispatched =
         IF RouteOf(lastOp.op, lastArgs.entityType) = Null THEN <<>>
         ELSE <<[type |-> RouteOf(lastOp.op, lastArgs.entityType), arg |-> lastArgs.arg]>>

\* scale-changed on a layer dispatched nothing.
C20_Witness ==
  /\ lastOp.op = "onScaleChanged"
  /\ lastArgs.entityType = "layer"
  /\ dispatched = <<>>

\* The ids the identifier of a canvas state can resolve to: the ids of the
\* collection of its type.
IdsOfType(state, type) ==
  IF type = "layer" THEN state.layers
  ELSE IF type = "control_adapter" THEN state.controlAdapters
  ELSE IF type = "ip_adapter" THEN state.ipAdapters
  ELSE IF type = "regional_guidance" THEN state.regions
  ELSE IF type = "inpaint_mask" THEN {state.inpaintMask.id}
  ELSE {}

Resolves(state) ==
  /\ state.selectedEntityIdentifier.present
  /\ state.selectedEntityIdentifier.id
       \in IdsOfType(state, state.selectedEntityIdentifier.type)

AfterGetSelectedEntity == lastOp.op = "getSelectedEntity"

\* C21: getSelectedEntity returns null whenever the identifier is absent or
\* names no existing entity with that id in the collection of its type (the
\* inpaint mask included), and otherwise the entity whose id is the
\* identifier's; getIsSelected(id) is then true for at most one id.
C21_SelectedEntityResolves ==
  AfterGetSelectedEntity =>
    /\ Resolves(lastArgs.state) =>
         lastArgs.entity = [id |-> lastArgs.state.selectedEntityIdentifier.id,
                            type |-> lastArgs.state.selectedEntityIdentifier.type]
    /\ ~Resolves(lastArgs.state) => lastArgs.entity = NullEntity
    /\ ~(lastArgs.isSelected["entity_1"] /\ lastArgs.isSelected["entity_2"])
    /\ ~(lastArgs.isSelected["entity_1"] /\ lastArgs.isSelected["inpaint_mask"])
    /\ ~(lastArgs.isSelected["entity_2"] /\ lastArgs.isSelected["inpaint_mask"])

\* The part of C21 that needs no id comparison: at most one id is selected.
C21_AtMostOneSelected ==
  AfterGetSelectedEntity =>
    /\ ~(lastArgs.isSelected["entity_1"] /\ lastArgs.isSelected["entity_2"])
    /\ ~(lastArgs.isSelected["entity_1"] /\ lastArgs.isSelected["inpaint_mask"])
    /\ ~(lastArgs.isSelected["entity_2"] /\ lastArgs.isSelected["inpaint_mask"])

\* A change of one of the four atoms a transformer listens to.
AtomChanged ==
  \/ lastOp'.op = "setTool"
  \/ lastOp'.op = "selectEntity"
  \/ lastOp'.op = "setShiftKey"
  \/ lastOp'.op = "setStageScale"

\* C22: once destroy() has been called once on a transformer, each of its
\* four subscriptions has been released exactly once, and from then on no
\* change of the tool, the selection, the shift key or the stage scale
\* changes its interactionMode, its rotation snaps or its outline.
C22_DestroyReleasesListeners ==
  [][\A t \in Entities :
       /\ destroyCalls'[t] = 1 =>
            /\ cleanups'[t]["stageAttrs"] = 1
            /\ cleanups'[t]["shiftKey"] = 1
            /\ cleanups'[t]["toolState"] = 1
            /\ cleanups'[t]["selectedEntityIdentifier"] = 1
            /\ subscriptions'[t] = {}
       /\ (destroyCalls[t] >= 1 /\ AtomChanged) =>
            /\ interactionMode'[t] = interactionMode[t]
            /\ widgets'[t] = widgets[t]
            /\ t = Held => (rotationSnaps' = rotationSnaps /\ bboxOutline' = bboxOutline)]_vars

\* A destroyed transformer in drag mode has seen the tool leave move: a live
\* one would have left drag mode.
C22_Witness ==
  /\ destroyCalls[Held] = 1
  /\ cleanups[Held]["toolState"] = 1
  /\ lastOp.op = "setTool"
  /\ toolSelected = "view"
  /\ interactionMode[Held] = "drag"

\* C23: for a live transformer the rotation snaps are the eight multiples of
\* 45 degrees exactly when the shift key is held, and empty otherwise,
\* whatever the shift key did, held at construction included.
C23_SnapsFollowShift ==
  destroyCalls[Held] = 0 =>
    /\ shiftKey => rotationSnaps = <<0, 45, 90, 135, 180, 225, 270, 315>>
    /\ ~shiftKey => rotationSnaps = <<>>

\* C23 for the transformers constructed with the shift key up, or after the
\* first change of the shift key.
C23_SnapsFollowShiftChanges ==
  (destroyCalls[Held] = 0 /\ (lastOp.op = "setShiftKey" \/ lastArgs /= [none |-> TRUE])) =>
    /\ shiftKey => rotationSnaps = <<0, 45, 90, 135, 180, 225, 270, 315>>
    /\ ~shiftKey => rotationSnaps = <<>>

\* The tool changes under a selected transformer with content that is
\* transforming.
ToolChangesWhileTransforming(t) ==
  /\ lastOp'.op = "setTool"
  /\ getIsSelected(selectedEntityIdentifier, t)
  /\ hasObjects[t]
  /\ isTransforming[t]

\* The first half of C24: the view tool suspends a running transform, any
\* other tool resumes it.
C24_ViewSuspendsTransform ==
  [][\A t \in Entities :
       /\ (ToolChangesWhileTransforming(t) /\ toolSelected' = "view") =>
            /\ interactionMode'[t] = "off"
            /\ ~layerListening'[t]
            /\ isTransforming'[t]
       /\ (ToolChangesWhileTransforming(t) /\ toolSelected = "view") =>
            /\ interactionMode'[t] = "all"
            /\ isTransforming'[t]]_vars

\* C24: while a selected entity with content is transforming, switching to
\* the view tool sets interactionMode to off and the layer's listening to
\* false with isTransforming still true, and switching from view to another
\* tool restores mode all; hence whenever the view tool is selected no
\* transformer is in mode all.
C24_ViewToolNeverAll ==
  [][\A t \in Entities :
       /\ (ToolChangesWhileTransforming(t) /\ toolSelected' = "view") =>
            /\ interactionMode'[t] = "off"
            /\ ~layerListening'[t]
            /\ isTransforming'[t]
       /\ (ToolChangesWhileTransforming(t) /\ toolSelected = "view") =>
            /\ interactionMode'[t] = "all"
            /\ isTransforming'[t]
       /\ toolSelected' = "view" => interactionMode'[t] /= "all"]_vars

\* The rational is a whole number.
IsWhole(r) == IsFinite(r) /\ r.den = 1

\* The returned position, measured from the stage's position in logical
\* pixels, is whole on both axes.
OnPixelGrid(pos, stg) ==
  /\ IsWhole(RQuot(RSub(pos.x, stg.x), stg.scaleX))
  /\ IsWhole(RQuot(RSub(pos.y, stg.y), stg.scaleX))

AfterAnchorDrag == lastOp.op = "anchorDragBoundFunc"

\* C25: anchorDragBoundFunc returns the candidate position unchanged when
\* the rotate handle is the active anchor; for any other anchor, at every
\* stage scale and stage position, (returned - stagePos) / stageScale is an
\* integer on both axes.
C25_AnchorSnapsToPixelGrid ==
  AfterAnchorDrag =>
    /\ activeAnchor = "rotater" => lastArgs.pos = lastArgs.newPos
    /\ activeAnchor /= "rotater" => OnPixelGrid(lastArgs.pos, stage)

\* C25 on a stage whose scale is finite and not zero and whose position is
\* finite.
C25_AnchorSnapsOnProperStage ==
  (/\ AfterAnchorDrag
   /\ IsFinite(stage.scaleX) /\ stage.scaleX.num /= 0
   /\ IsFinite(stage.x) /\ IsFinite(stage.y)) =>
    /\ activeAnchor = "rotater" => lastArgs.pos = lastArgs.newPos
    /\ activeAnchor /= "rotater" => OnPixelGrid(lastArgs.pos, stage)

\* f is Math.floor of v: the whole number with f <= v < f + 1, and v itself
\* when v is not finite.
IsFloorOf(f, v) ==
  IF IsFinite(v)
    THEN IsWhole(f) /\ RLe(f, v) /\ RLt(v, RAdd(f, Rat(1, 1)))
    ELSE f = v

\* C26: after setScale the published $stageAttrs hold the floor of the live
\* stage x and y, the live scale and the live width and height; after
\* fitStageToContainer they hold the live x, y, width, height and scale
\* exactly.
C26_PublishedViewport ==
  /\ lastOp.op = "setScale" =>
       /\ IsFloorOf(stageAttrs.x, stage.x)
       /\ IsFloorOf(stageAttrs.y, stage.y)
       /\ stageAttrs.scale = stage.scaleX
       /\ stageAttrs.width = stage.width
       /\ stageAttrs.height = stage.height
  /\ lastOp.op = "fitStageToContainer" =>
       /\ stageAttrs.x = stage.x
       /\ stageAttrs.y = stage.y
       /\ stageAttrs.width = stage.width
       /\ stageAttrs.height = stage.height
       /\ stageAttrs.scale = stage.scaleX

\* setScale has left the live x between two pixels: the published x is below it.
C26_Witness ==
  /\ lastOp.op = "setScale"
  /\ IsFinite(stage.x)
  /\ ~IsWhole(stage.x)
  /\ RLt(stageAttrs.x, stage.x)

\* The flags and widgets of transformer t agree with its interactionMode.
ModeGovernsWidgets(t) ==
  /\ isDragEnabled[t] <=> (interactionMode[t] = "drag" \/ interactionMode[t] = "all")
  /\ isTransformEnabled[t] <=> interactionMode[t] = "all"
  /\ interactionMode[t] = "all" => widgets[t].transformerNodes = "proxyRect"
  /\ interactionMode[t] /= "all" => widgets[t].transformerNodes = Null
  /\ widgets[t].outlineVisible <=> interactionMode[t] = "drag"

\* C27: in every reachable state isDragEnabled holds exactly in modes drag
\* and all, isTransformEnabled exactly in mode all (the control group then
\* attached to the proxy rect, and to no node otherwise), and the bbox
\* outline is visible exactly in mode drag.
C27_ModeGovernsWidgets ==
  \A t \in Entities : ModeGovernsWidgets(t)

\* C27 for the transformers whose setInteractionMode has run: their nodes
\* are no longer as the constructor left them.
C27_ModeGovernsWidgetsOnceSet ==
  \A t \in Entities : widgets[t] /= InitWidgets => ModeGovernsWidgets(t)

\* C28: in every state reached by startTransform, stopTransform,
\* applyTransform and changes of the tool and of the selection, a transformer
\* in mode all is transforming and a transformer in mode drag is not.
C28_ModeAgreesWithTransforming ==
  \A t \in Entities :
    /\ interactionMode[t] = "all" => isTransforming[t]
    /\ interactionMode[t] = "drag" => ~isTransforming[t]

\* One transformer is resizing in mode all while the other, not
\* transforming, is dragged in mode drag.
C28_Witness ==
  \E t, u \in Entities :
    /\ interactionMode[t] = "all" /\ isTransforming[t]
    /\ interactionMode[u] = "drag" /\ ~isTransforming[u]

\* The first half of C29: the rasterize of an ended session completes while
\* a later session runs, and that session goes on.
C29_StaleCompletionSpared ==
  [][(lastOp'.op = "rasterizeDone" /\ isTransforming[Held]) =>
       /\ isTransforming'[Held]
       /\ interactionMode[Held] = "all" => interactionMode'[Held] = "all"]_vars

\* The second half of C29: no position is dispatched by a dragend that
\* arrives while a rasterize is pending.
C29_NoCommitWhilePending ==
  [][(lastOp'.op = "dragend" /\ rasterizing[Held] > 0) => dispatched' = <<>>]_vars

\* C29: the stopTransform run when an applyTransform's rasterize completes
\* ends only the session in which applyTransform was called: when
\* stopTransform was called from outside meanwhile and a new startTransform
\* began, the completion neither clears isTransforming nor leaves mode all
\* for the new session; and a dragend arriving while the rasterize is
\* pending dispatches no position change.
C29_ApplyEndsOwnSession ==
  [][/\ (lastOp'.op = "rasterizeDone" /\ isTransforming[Held]) =>
          /\ isTransforming'[Held]
          /\ interactionMode[Held] = "all" => interactionMode'[Held] = "all"
     /\ (lastOp'.op = "dragend" /\ rasterizing[Held] > 0) => dispatched' = <<>>]_vars

\* The state the sessions start from is one the mode machine reaches: the
\* transform was stopped from outside while its rasterize is pending.
SessionStartReached ==
  /\ lastOp = Op("stopTransform", Held)
  /\ rasterizing[Held] = 1
  /\ ~isTransforming[Held]
  /\ interactionMode[Held] = "drag"

\* C30: after every dragmove, transform and transformend the visual group's
\* x and y equal the proxy rect's (after transform and transformend its
\* scaleX and scaleY too), and after every dragmove the bbox outline's x and
\* y are the proxy rect's less the scaled bbox padding.
C30_GroupFollowsProxy ==
  /\ (lastOp.op = "dragmove" \/ lastOp.op = "transform" \/ lastOp.op = "transformend") =>
       /\ objectGroup.x = proxyRect.x
       /\ objectGroup.y = proxyRect.y
  /\ (lastOp.op = "transform" \/ lastOp.op = "transformend") =>
       /\ objectGroup.scaleX = proxyRect.scaleX
       /\ objectGroup.scaleY = proxyRect.scaleY
  /\ lastOp.op = "dragmove" =>
       /\ bboxOutline.x = proxyRect.x - getScaledBboxPadding(stageScale)
       /\ bboxOutline.y = proxyRect.y - getScaledBboxPadding(stageScale)

\* A transformend has moved the proxy rect to whole pixels and changed its
\* scale, and the visual group has followed.
C30_Witness ==
  /\ lastOp.op = "transformend"
  /\ proxyRect.scaleX /= Rat(1, 1)
  /\ IsInt(proxyRect.x)
  /\ objectGroup.scaleX = proxyRect.scaleX
  /\ objectGroup.x = proxyRect.x
  /\ objectGroup.x /= 0
====
